---- MODULE Spec2Model ----
(***************************************************************************)
(* Catalog, product list, cart, wishlist, account and stock handling of    *)
(* the e-commerce product API (api/views.py, api/models.py,                *)
(* api/serializers.py).                                                    *)
(*                                                                         *)
(* Spec        : one shopper; every request handler runs to completion    *)
(*               before the next one starts (one action per handler).     *)
(* SpecPrice   : the shopper's cart while the staff changes prices.        *)
(* SpecOwn     : two users, each on their own and the other's rows.        *)
(* SpecCatalog : the catalog routes called by anonymous, signed-in and     *)
(*               staff callers.                                            *)
(* SpecAccount : the profile, password, cart and wishlist routes called    *)
(*               with and without a valid credential.                      *)
(* SpecList    : one GET /products/ with query parameters over a catalog   *)
(*               drawn from a bounded set.                                 *)
(* SpecWish    : the shopper's wishlist requests, unknown products         *)
(*               included.                                                 *)
(* SpecConc, SpecCart, SpecWishConc, SpecReg, SpecStock : requests of      *)
(*               several clients are                                       *)
(*               interleaved at the granularity of their database queries  *)
(*               (Django autocommit: every ORM call is its own             *)
(*               transaction).                                             *)
(***************************************************************************)
EXTENDS Integers, FiniteSets, Sequences, TLC

\* ----------------------------------------------------------------- bounds
MaxStock == 2
MaxItemId == 2
MaxWishId == 2
MaxRequests == 2
MaxPrice == 2
MaxProductId == 3
MaxCategoryId == 2

Users == {"alice", "bob"}

\* the user of the single-user sessions
Shopper == "alice"
Products == {1, 2}

\* a primary key no Product row has
NoProduct == 9999

\* a primary key no CartItem / Wishlist row ever gets
NoRow == 0

\* ProductViewSet.low_stock: stock_quantity__lt=10
LowStock == 10

ItemIds == 1..MaxItemId
WishIds == 1..MaxWishId

VARIABLES
    stock,      \* Product.stock_quantity of every Product row, by primary key
    price,      \* Product.price of every Product row, in units of 0.01
    catalog,    \* the other columns of the Product rows:
                \* [name, description, category, created_date]
    categories, \* Category.name of every Category row, by primary key
    listing,    \* the product list request served last and its result
    users,      \* the User rows: [email, password], by username
    carts,      \* the Cart rows: [id, user]
    cartItems,  \* the CartItem rows: [id, cart, product, quantity]
    wishlists,  \* the Wishlist rows: [id, user, product]
    nextId,     \* the AUTOINCREMENT sequences of the tables
    reqs,       \* the requests in flight (SpecConc), by client connection
    started,    \* the number of requests started so far (SpecConc)
    last        \* the request completed last and its response (Spec)

vars == <<stock, price, catalog, categories, listing, users, carts, cartItems,
          wishlists, nextId, reqs, started, last>>

\* ------------------------------------------------------- request payloads
\* A JSON / form value found under a key of request.data.
Missing == [kind |-> "missing", n |-> 0]
Null == [kind |-> "null", n |-> 0]
Junk == [kind |-> "junk", n |-> 0]
IntVal(i) == [kind |-> "int", n |-> i]

\* the JSON number i + 0.5
FloatVal(i) == [kind |-> "float", n |-> i]

\* the form string of the decimal digits of i
StrVal(i) == [kind |-> "str", n |-> i]

QuantityValues ==
    {Missing, Null, Junk, FloatVal(1), StrVal(1)}
    \cup {IntVal(i) : i \in 0..MaxStock}

ChangeValues ==
    {Missing, Junk, FloatVal(1)}
    \cup {IntVal(i) : i \in (0 - MaxStock)..MaxStock}

\* request.data.get(key, default)
DataGet(value, default) == IF value = Missing THEN default ELSE value

\* request.data.get(key): None for an absent key and for a JSON null
DataGetNone(value) == IF value = Missing THEN Null ELSE value

\* Python's int(x): the integer itself, a float truncated toward zero, a
\* digit string parsed; ValueError / TypeError (ok = FALSE) otherwise.
int(value) ==
    CASE value.kind = "int" -> [ok |-> TRUE, v |-> value.n]
      [] value.kind = "float" -> [ok |-> TRUE, v |-> value.n]
      [] value.kind = "str" -> [ok |-> TRUE, v |-> value.n]
      [] OTHER -> [ok |-> FALSE, v |-> 0]

\* ------------------------------------------------------------- the tables
\* Cart.objects.filter(user=u)
CartsOf(cs, u) == {c \in cs : c.user = u}

\* cart.items.all()
ItemsOf(items, cartId) == {i \in items : i.cart = cartId}

\* CartItem.objects.filter(cart__user=u): the join through Cart
ItemsOfUser(cs, items, u) ==
    {i \in items : \E c \in cs : c.id = i.cart /\ c.user = u}

\* Wishlist.objects.filter(user=u)
WishlistsOf(ws, u) == {w \in ws : w.user = u}

RECURSIVE SumQuantity(_)
SumQuantity(items) ==
    IF items = {} THEN 0
    ELSE LET i == CHOOSE x \in items : TRUE
         IN i.quantity + SumQuantity(items \ {i})

\* Cart.total_items
total_items(items, cartId) == SumQuantity(ItemsOf(items, cartId))

\* the catalog the cart and wishlist sessions run over
FirstCategories == [c \in {1} |-> <<"a">>]

FirstCatalog ==
    [p \in Products |->
        [name |-> IF p = 1 THEN <<"a">> ELSE <<"b">>, description |-> <<>>,
         category |-> 1, created_date |-> p]]

FirstPrice == [p \in Products |-> p]

\* the price the product had when the session began
subtotal_first_price(db, item) == FirstPrice[item.product] * item.quantity

\* CartItem.subtotal
subtotal(db, item) == db.price[item.product] * item.quantity

RECURSIVE SumSubtotal(_, _)
SumSubtotal(db, items) ==
    IF items = {} THEN 0
    ELSE LET i == CHOOSE x \in items : TRUE
         IN subtotal(db, i) + SumSubtotal(db, items \ {i})

\* Cart.total_price
total_price(db, cartId) == SumSubtotal(db, ItemsOf(db.cartItems, cartId))

\* ------------------------------------------------------------------- Init
NoRequest == [op |-> "none", status |-> 0, detail |-> ""]

NoItem == [id |-> NoRow, cart |-> NoRow, product |-> 0, quantity |-> 0]

\* the body of a write: the fields a handler reads
NoData == [name |-> <<>>, price |-> Missing, stock_quantity |-> 0,
           category |-> NoRow, change |-> Missing, quantity |-> Missing,
           username |-> "", email |-> "", password |-> "",
           password_confirm |-> "", old_password |-> "", new_password |-> "",
           new_password_confirm |-> ""]

\* a client connection with no request in flight
Idle == [pc |-> "idle", op |-> "none", user |-> "", pid |-> 0, itemId |-> 0,
         raw |-> Missing, cart |-> NoRow, item |-> NoItem, seen |-> 0,
         base |-> 0, status |-> 0, detail |-> "", data |-> NoData]

Clients == {1, 2}

\* the users registered before the sessions begin
FirstUsers == [u \in Users |-> [email |-> u, password |-> "first"]]

\* the query parameters get_queryset reads
NoParams ==
    [category |-> Missing, min_price |-> Missing, max_price |-> Missing,
     in_stock |-> Missing, min_stock |-> Missing, created_after |-> Missing,
     created_before |-> Missing, search |-> Missing]

NoListing == [params |-> NoParams, status |-> 0, results |-> <<>>]

Init ==
    /\ stock \in [Products -> 0..MaxStock]
    /\ price = FirstPrice
    /\ catalog = FirstCatalog
    /\ categories = FirstCategories
    /\ listing = NoListing
    /\ users = FirstUsers
    /\ carts = {}
    /\ cartItems = {}
    /\ wishlists = {}
    /\ nextId = [cart |-> 1, item |-> 1, wish |-> 1, product |-> 3,
                 category |-> 2]
    /\ reqs = [s \in Clients |-> Idle]
    /\ started = 0
    /\ last = NoRequest

\* the persisted store as one value
DB ==
    [stock |-> stock, price |-> price, catalog |-> catalog,
     categories |-> categories, users |-> users, carts |-> carts,
     cartItems |-> cartItems,
     wishlists |-> wishlists, nextId |-> nextId]

\* a handler's outcome: the store it leaves, the HTTP status, which return
\* statement produced it, and the rows rendered in the body
Response(db, status, detail, body) ==
    [db |-> db, status |-> status, detail |-> detail, body |-> body]

\* CartSerializer(cart).data: the cart's items as stored when it is rendered
CartSerializer(db, cartId) == ItemsOf(db.cartItems, cartId)

\* CartSerializer(cart).data with the read-only fields of the items and
\* of the cart
CartSerializer_data(db, cartId) ==
    [items |-> {[id |-> i.id, product |-> i.product, quantity |-> i.quantity,
                 subtotal |-> subtotal(db, i)] : i \in ItemsOf(db.cartItems, cartId)},
     total_items |-> total_items(db.cartItems, cartId),
     total_price |-> total_price(db, cartId)]

\* ------------------------------------------------------------ ORM queries
\* INSERT of a Cart row whose user is a plain ForeignKey
CartInsert_not_unique(db, u) ==
    [ok |-> TRUE,
     db |-> [db EXCEPT !.carts = @ \cup {[id |-> db.nextId.cart, user |-> u]},
                       !.nextId.cart = @ + 1],
     id |-> db.nextId.cart]

\* INSERT of a Cart row; the OneToOneField makes user unique
CartInsert(db, u) ==
    IF CartsOf(db.carts, u) # {}
    THEN [ok |-> FALSE, db |-> db, id |-> NoRow]
    ELSE [ok |-> TRUE,
          db |-> [db EXCEPT !.carts = @ \cup {[id |-> db.nextId.cart, user |-> u]},
                            !.nextId.cart = @ + 1],
          id |-> db.nextId.cart]

\* Cart.objects.get_or_create(user=u), run without interference
get_or_create_Cart(db, u) ==
    LET found == CartsOf(db.carts, u)
    IN IF found # {}
       THEN [db |-> db, cart |-> (CHOOSE c \in found : TRUE).id, created |-> FALSE]
       ELSE LET ins == CartInsert(db, u)
            IN [db |-> ins.db, cart |-> ins.id, created |-> TRUE]

\* CartItem.objects.filter(cart=c, product=p)
ItemsFor(db, cartId, pid) ==
    {i \in db.cartItems : i.cart = cartId /\ i.product = pid}

\* no unique_together on CartItem
ItemInsert_no_unique(db, cartId, pid, quantity) ==
    [ok |-> TRUE,
     db |-> [db EXCEPT !.cartItems = @ \cup
                 {[id |-> db.nextId.item, cart |-> cartId,
                   product |-> pid, quantity |-> quantity]},
                       !.nextId.item = @ + 1],
     id |-> db.nextId.item]

\* INSERT of a CartItem row under unique_together (cart, product)
ItemInsert(db, cartId, pid, quantity) ==
    IF ItemsFor(db, cartId, pid) # {}
    THEN [ok |-> FALSE, db |-> db, id |-> NoRow]
    ELSE [ok |-> TRUE,
          db |-> [db EXCEPT !.cartItems = @ \cup
                      {[id |-> db.nextId.item, cart |-> cartId,
                        product |-> pid, quantity |-> quantity]},
                            !.nextId.item = @ + 1],
          id |-> db.nextId.item]

\* CartItem.objects.get_or_create(cart=c, product=p, defaults={'quantity': q}),
\* run without interference
get_or_create_CartItem(db, cartId, pid, quantity) ==
    LET found == ItemsFor(db, cartId, pid)
    IN IF found # {}
       THEN [db |-> db, item |-> CHOOSE i \in found : TRUE, created |-> FALSE]
       ELSE LET ins == ItemInsert(db, cartId, pid, quantity)
            IN [db |-> ins.db,
                item |-> [id |-> ins.id, cart |-> cartId,
                          product |-> pid, quantity |-> quantity],
                created |-> TRUE]

\* a save that takes the saved quantity out of the product's stock
ItemSave_reserves(db, item) ==
    [ok |-> TRUE,
     db |-> [db EXCEPT !.cartItems = {i \in @ : i.id # item.id} \cup {item},
                       !.stock[item.product] = @ - item.quantity]]

\* cart_item.save(): UPDATE of the row with the instance's primary key and,
\* when no row has it any more, INSERT of the instance with that key
\* (IntegrityError, ok = FALSE, when the pair (cart, product) is taken)
ItemSave(db, item) ==
    IF \E i \in db.cartItems : i.id = item.id
    THEN [ok |-> TRUE,
          db |-> [db EXCEPT !.cartItems =
                      {IF i.id = item.id THEN item ELSE i : i \in @}]]
    ELSE IF ItemsFor(db, item.cart, item.product) # {}
         THEN [ok |-> FALSE, db |-> db]
         ELSE [ok |-> TRUE, db |-> [db EXCEPT !.cartItems = @ \cup {item}]]

\* the lookup by primary key alone, without cart__user
ItemGet_any_user(db, itemId, u) == {i \in db.cartItems : i.id = itemId}

\* CartItem.objects.get(pk=item_id, cart__user=u)
ItemGet(db, itemId, u) ==
    {i \in ItemsOfUser(db.carts, db.cartItems, u) : i.id = itemId}

\* the row stays in the table
ItemDelete_keeps_row(db, itemId) == db

\* cart_item.delete()
ItemDelete(db, itemId) ==
    [db EXCEPT !.cartItems = {i \in @ : i.id # itemId}]

\* Wishlist.objects.filter(user=u, product=p)
WishlistsFor(db, u, pid) ==
    {w \in db.wishlists : w.user = u /\ w.product = pid}

\* Wishlist.objects.create(user=u, product=p) under unique_together
\* (user, product)
WishlistInsert(db, u, pid) ==
    IF WishlistsFor(db, u, pid) # {}
    THEN [ok |-> FALSE, db |-> db]
    ELSE [ok |-> TRUE,
          db |-> [db EXCEPT !.wishlists = @ \cup
                      {[id |-> db.nextId.wish, user |-> u, product |-> pid]},
                            !.nextId.wish = @ + 1]]

\* wishlist_item.delete()
WishlistDelete(db, wishId) ==
    [db EXCEPT !.wishlists = {w \in @ : w.id # wishId}]

\* ------------------------------------------------- checks of the handlers
\* off by one: a quantity one above the stock passes
requested_exceeds_stock_off(quantity, stock_quantity) ==
    quantity > stock_quantity + 1

\* CartViewSet.create: quantity > product.stock_quantity
requested_exceeds_stock(quantity, stock_quantity) == quantity > stock_quantity

\* the requested quantity replaces the held one
new_quantity_overwrite(cart_item_quantity, quantity) == quantity

\* CartViewSet.create: new_quantity = cart_item.quantity + quantity
new_quantity(cart_item_quantity, quantity) == cart_item_quantity + quantity

\* the merged quantity is not checked
total_exceeds_stock_never(total, stock_quantity) == FALSE

\* CartViewSet.create: new_quantity > product.stock_quantity
total_exceeds_stock(total, stock_quantity) == total > stock_quantity

\* CartViewSet.update_item: quantity > cart_item.product.stock_quantity
update_exceeds_stock(quantity, stock_quantity) == quantity > stock_quantity

\* ------------------------------------------- handlers, run to completion
\* CartViewSet.list
CartViewSet_list(db, u) ==
    LET gc == get_or_create_Cart(db, u)
    IN Response(gc.db, 200, "ok", CartSerializer(gc.db, gc.cart))

\* CartViewSet.create
CartViewSet_create(db, u, pid, raw) ==
    LET gc == get_or_create_Cart(db, u)
        quantity == int(DataGet(raw, IntVal(1)))
    IN IF ~quantity.ok THEN Response(gc.db, 400, "invalid", {})
       ELSE IF quantity.v < 1 THEN Response(gc.db, 400, "at_least_1", {})
       ELSE IF pid \notin DOMAIN gc.db.stock THEN Response(gc.db, 404, "not_found", {})
       ELSE IF requested_exceeds_stock(quantity.v, gc.db.stock[pid])
            THEN Response(gc.db, 400, "exceeds", {})
       ELSE LET gi == get_or_create_CartItem(gc.db, gc.cart, pid, quantity.v)
                total == new_quantity(gi.item.quantity, quantity.v)
            IN IF gi.created
               THEN Response(gi.db, 201, "created", CartSerializer(gi.db, gc.cart))
               ELSE IF total_exceeds_stock(total, gc.db.stock[pid])
                    THEN Response(gi.db, 400, "total_exceeds", {})
                    ELSE LET sv == ItemSave(gi.db,
                                     [gi.item EXCEPT !.quantity = total])
                         IN Response(sv.db, 201, "merged",
                                     CartSerializer(sv.db, gc.cart))

\* CartViewSet.update_item
CartViewSet_update_item(db, u, itemId, raw) ==
    LET found == ItemGet(db, itemId, u)
        cart_item == CHOOSE i \in found : TRUE
        quantity == int(DataGetNone(raw))
    IN IF found = {} THEN Response(db, 404, "not_found", {})
       ELSE IF DataGetNone(raw) = Null THEN Response(db, 400, "required", {})
       ELSE IF ~quantity.ok THEN Response(db, 400, "invalid", {})
       ELSE IF quantity.v < 1 THEN Response(db, 400, "at_least_1", {})
       ELSE IF update_exceeds_stock(quantity.v, db.stock[cart_item.product])
            THEN Response(db, 400, "exceeds", {})
       ELSE LET sv == ItemSave(db, [cart_item EXCEPT !.quantity = quantity.v])
            IN Response(sv.db, 200, "ok", CartSerializer(sv.db, cart_item.cart))

\* CartViewSet.remove_item
CartViewSet_remove_item(db, u, itemId) ==
    LET found == ItemGet(db, itemId, u)
        cart_item == CHOOSE i \in found : TRUE
        after == ItemDelete(db, itemId)
    IN IF found = {} THEN Response(db, 404, "not_found", {})
       ELSE Response(after, 200, "ok", CartSerializer(after, cart_item.cart))

\* CartViewSet.clear
CartViewSet_clear(db, u) ==
    LET gc == get_or_create_Cart(db, u)
        after == [gc.db EXCEPT !.cartItems = @ \ ItemsOf(@, gc.cart)]
    IN Response(after, 200, "ok", CartSerializer(after, gc.cart))

\* WishlistViewSet.list
WishlistViewSet_list(db, u) ==
    Response(db, 200, "ok", WishlistsOf(db.wishlists, u))

\* the check of the existing rows is skipped
validate_product_skipped(db, u, pid) == TRUE

\* WishlistSerializer.validate_product
validate_product(db, u, pid) == WishlistsFor(db, u, pid) = {}

\* WishlistSerializer.is_valid: the product field takes the primary key of
\* an existing Product, then validate_product runs; "" when valid
WishlistSerializer_errors(db, u, pid) ==
    IF pid \notin DOMAIN db.stock THEN "invalid_pk"
    ELSE IF ~validate_product(db, u, pid) THEN "duplicate"
    ELSE ""

\* the lookup by primary key alone, without user
WishlistGet_any_user(db, pk, u) == {w \in db.wishlists : w.id = pk}

\* Wishlist.objects.get(pk=pk, user=u)
WishlistGet(db, pk, u) == {w \in WishlistsOf(db.wishlists, u) : w.id = pk}

\* WishlistViewSet.create
WishlistViewSet_create(db, u, pid) ==
    IF WishlistSerializer_errors(db, u, pid) # ""
    THEN Response(db, 400, WishlistSerializer_errors(db, u, pid), {})
    ELSE IF pid \notin DOMAIN db.stock THEN Response(db, 404, "not_found", {})
    ELSE LET ins == WishlistInsert(db, u, pid)
         IN IF ins.ok
            THEN Response(ins.db, 201, "created", WishlistsFor(ins.db, u, pid))
            ELSE Response(db, 500, "IntegrityError", {})

\* WishlistViewSet.destroy
WishlistViewSet_destroy(db, u, pk) ==
    LET found == WishlistGet(db, pk, u)
    IN IF found = {} THEN Response(db, 404, "not_found", {})
       ELSE Response(WishlistDelete(db, pk), 204, "removed", {})

\* WishlistViewSet.remove_by_product
WishlistViewSet_remove_by_product(db, u, pid) ==
    LET found == WishlistsFor(db, u, pid)
    IN IF found = {} THEN Response(db, 404, "not_found", {})
       ELSE Response(WishlistDelete(db, (CHOOSE w \in found : TRUE).id),
                     204, "removed", {})

\* ProductViewSet.update_stock
ProductViewSet_update_stock(db, pid, raw) ==
    LET quantity_change == int(DataGet(raw, IntVal(0)))
        new_stock == db.stock[pid] + quantity_change.v
    IN IF pid \notin DOMAIN db.stock THEN Response(db, 404, "not_found", {})
       ELSE IF ~quantity_change.ok THEN Response(db, 400, "invalid", {})
       ELSE IF new_stock < 0 THEN Response(db, 400, "negative", {})
       ELSE Response([db EXCEPT !.stock[pid] = new_stock], 200, "ok", {})

\* ProductSerializer.validate_price and the validators of Product.price
validate_price(value) == value > 0

\* ProductViewSet.partial_update with {"price": raw}, by a staff identity
ProductViewSet_partial_update_price(db, pid, raw) ==
    IF pid \notin DOMAIN db.stock THEN Response(db, 404, "not_found", {})
    ELSE IF raw.kind # "int" THEN Response(db, 400, "invalid", {})
    ELSE IF ~validate_price(raw.n) THEN Response(db, 400, "not_positive", {})
    ELSE Response([db EXCEPT !.price[pid] = raw.n], 200, "ok", {})

\* ------------------------------------------------ the catalog's handlers
\* on_delete=CASCADE from Product to CartItem and Wishlist
ProductDelete(db, pids) ==
    [db EXCEPT !.stock = [p \in DOMAIN @ \ pids |-> @[p]],
               !.price = [p \in DOMAIN @ \ pids |-> @[p]],
               !.catalog = [p \in DOMAIN @ \ pids |-> @[p]],
               !.cartItems = {i \in @ : i.product \notin pids},
               !.wishlists = {w \in @ : w.product \notin pids}]

\* ProductViewSet.create: ProductSerializer.is_valid, then the INSERT
ProductViewSet_create(db, data) ==
    IF \/ data.name = <<>>
       \/ data.price.kind # "int"
       \/ ~validate_price(data.price.n)
       \/ data.stock_quantity < 0
       \/ data.category \notin DOMAIN db.categories
    THEN Response(db, 400, "invalid", {})
    ELSE LET pk == db.nextId.product
         IN Response([db EXCEPT
                !.stock = @ @@ (pk :> data.stock_quantity),
                !.price = @ @@ (pk :> data.price.n),
                !.catalog = @ @@ (pk :> [name |-> data.name, description |-> <<>>,
                                         category |-> data.category,
                                         created_date |-> pk]),
                !.nextId.product = @ + 1], 201, "created", {pk})

\* ProductViewSet.destroy
ProductViewSet_destroy(db, pid) ==
    IF pid \notin DOMAIN db.stock THEN Response(db, 404, "not_found", {})
    ELSE Response(ProductDelete(db, {pid}), 204, "deleted", {})

\* CategoryViewSet.create: the name is required and unique
CategoryViewSet_create(db, data) ==
    IF data.name = <<>> \/ \E c \in DOMAIN db.categories : db.categories[c] = data.name
    THEN Response(db, 400, "invalid", {})
    ELSE Response([db EXCEPT !.categories = @ @@ (db.nextId.category :> data.name),
                             !.nextId.category = @ + 1],
                  201, "created", {db.nextId.category})

\* CategoryViewSet.update
CategoryViewSet_update(db, cid, data) ==
    IF cid \notin DOMAIN db.categories THEN Response(db, 404, "not_found", {})
    ELSE IF \/ data.name = <<>>
            \/ \E c \in DOMAIN db.categories \ {cid} : db.categories[c] = data.name
         THEN Response(db, 400, "invalid", {})
    ELSE Response([db EXCEPT !.categories[cid] = data.name], 200, "ok", {cid})

\* CategoryViewSet.destroy: on_delete=CASCADE from Category to Product
CategoryViewSet_destroy(db, cid) ==
    IF cid \notin DOMAIN db.categories THEN Response(db, 404, "not_found", {})
    ELSE LET gone == {p \in DOMAIN db.catalog : db.catalog[p].category = cid}
             after == ProductDelete(db, gone)
         IN Response([after EXCEPT !.categories = [c \in DOMAIN @ \ {cid} |-> @[c]]],
                     204, "deleted", {})

\* the detail and list routes that read: get_object, or the rows
CatalogRead(db, route) ==
    CASE route.action \in {"product_list", "low_stock"} ->
            Response(db, 200, "ok", DOMAIN db.stock)
      [] route.action = "category_list" ->
            Response(db, 200, "ok", DOMAIN db.categories)
      [] route.action = "product_retrieve" ->
            IF route.id \in DOMAIN db.stock THEN Response(db, 200, "ok", {route.id})
            ELSE Response(db, 404, "not_found", {})
      [] OTHER ->
            IF route.id \in DOMAIN db.categories
            THEN Response(db, 200, "ok",
                     IF route.action = "category_retrieve" THEN {route.id}
                     ELSE {p \in DOMAIN db.catalog : db.catalog[p].category = route.id})
            ELSE Response(db, 404, "not_found", {})

\* the routes of CategoryViewSet and ProductViewSet
ReadActions ==
    {"product_list", "product_retrieve", "low_stock", "category_list",
     "category_retrieve", "category_products"}

\* the handler a route of the catalog runs
CatalogHandler(db, route) ==
    CASE route.action = "product_create" -> ProductViewSet_create(db, route.data)
      [] route.action = "product_update" ->
            ProductViewSet_partial_update_price(db, route.id, route.data.price)
      [] route.action = "product_destroy" -> ProductViewSet_destroy(db, route.id)
      [] route.action = "update_stock" ->
            ProductViewSet_update_stock(db, route.id, route.data.change)
      [] route.action = "category_create" -> CategoryViewSet_create(db, route.data)
      [] route.action = "category_update" ->
            CategoryViewSet_update(db, route.id, route.data)
      [] route.action = "category_destroy" -> CategoryViewSet_destroy(db, route.id)
      [] OTHER -> CatalogRead(db, route)

\* ------------------------------------------------------- the product list
\* The values of request.query_params are strings: the decimal digits of n
\* (StrVal), the digits of n followed by ".5", an ISO-8601 timestamp of day
\* n with a numeric offset or with the suffix Z, or a text of letters.
DecimalStr(i) == [kind |-> "decimal", n |-> i]

IsoVal(d) == [kind |-> "iso", n |-> d]

IsoZVal(d) == [kind |-> "isoz", n |-> d]

Text(s) == [kind |-> "text", n |-> 0, s |-> s]

\* what no parser of the list accepts
Invalid == Text(<<"x">>)

\* str.lower(), on the letters of the model
lower(s) ==
    [i \in 1..Len(s) |->
        CASE s[i] = "A" -> "a"
          [] s[i] = "B" -> "b"
          [] s[i] = "T" -> "t"
          [] OTHER -> s[i]]

\* str.replace(old, new) for single characters
replace(s, old, new) == [i \in 1..Len(s) |-> IF s[i] = old THEN new ELSE s[i]]

\* str.split(): the maximal runs without whitespace
RECURSIVE split(_)
split(s) ==
    IF s = <<>> THEN <<>>
    ELSE IF Head(s) = " " THEN split(Tail(s))
    ELSE LET n == CHOOSE i \in 1..Len(s) :
                      /\ \A j \in 1..i : s[j] # " "
                      /\ (i = Len(s) \/ s[i + 1] = " ")
         IN <<SubSeq(s, 1, n)>> \o split(SubSeq(s, n + 1, Len(s)))

\* the lookup field__icontains=term
icontains(field, term) ==
    \E i \in 0..(Len(field) - Len(term)) :
        lower(SubSeq(field, i + 1, i + Len(term))) = lower(term)

\* a conversion that reads a string which is no number as zero
float_zero_on_error(value) ==
    CASE value.kind = "str" -> [ok |-> TRUE, v |-> 100 * value.n]
      [] value.kind = "decimal" -> [ok |-> TRUE, v |-> 100 * value.n + 50]
      [] OTHER -> [ok |-> TRUE, v |-> 0]

\* Python's float(x) on a string, in units of 0.01
float(value) ==
    CASE value.kind = "str" -> [ok |-> TRUE, v |-> 100 * value.n]
      [] value.kind = "decimal" -> [ok |-> TRUE, v |-> 100 * value.n + 50]
      [] OTHER -> [ok |-> FALSE, v |-> 0]

\* value.replace('Z', '+00:00')
replace_Z(value) ==
    IF value.kind = "isoz" THEN IsoVal(value.n) ELSE value

\* datetime.fromisoformat(x): the suffix Z is not an offset it reads
fromisoformat(value) ==
    IF value.kind = "iso" THEN [ok |-> TRUE, v |-> value.n]
    ELSE [ok |-> FALSE, v |-> 0]

FilterKeys == DOMAIN NoParams

\* Category.name of the row a product refers to
category__name(db, p) == db.categories[db.catalog[p].category]

\* Q(name__icontains=term) | Q(description__icontains=term) |
\* Q(category__name__icontains=term)
term_matches(db, p, term) ==
    \/ icontains(db.catalog[p].name, term)
    \/ icontains(db.catalog[p].description, term)
    \/ icontains(category__name(db, p), term)

\* the filter of get_queryset for one query parameter, on the rows qs
filter_by(db, qs, key, q) ==
    LET value == q[key]
    IN CASE value = Missing -> qs
         [] key = "category" ->
              IF int(value).ok
              THEN {p \in qs : db.catalog[p].category = int(value).v}
              ELSE IF value.kind = "text"
                   THEN {p \in qs : icontains(category__name(db, p), value.s)}
                   ELSE {}  \* no name of the model holds a digit
         [] key = "min_price" ->
              IF float(value).ok
              THEN {p \in qs : db.price[p] >= float(value).v} ELSE qs
         [] key = "max_price" ->
              IF float(value).ok
              THEN {p \in qs : db.price[p] <= float(value).v} ELSE qs
         [] key = "in_stock" ->
              IF value.kind = "text" /\ lower(value.s) = <<"t", "r", "u", "e">>
              THEN {p \in qs : db.stock[p] > 0}
              ELSE IF value.kind = "text"
                      /\ lower(value.s) = <<"f", "a", "l", "s", "e">>
                   THEN {p \in qs : db.stock[p] = 0}
                   ELSE qs
         [] key = "min_stock" ->
              IF int(value).ok
              THEN {p \in qs : db.stock[p] >= int(value).v} ELSE qs
         [] key = "created_after" ->
              IF fromisoformat(replace_Z(value)).ok
              THEN {p \in qs : db.catalog[p].created_date
                                   >= fromisoformat(replace_Z(value)).v}
              ELSE qs
         [] key = "created_before" ->
              IF fromisoformat(replace_Z(value)).ok
              THEN {p \in qs : db.catalog[p].created_date
                                   <= fromisoformat(replace_Z(value)).v}
              ELSE qs
         [] OTHER ->
              \* key = "search": query |= ... for each term; an empty Q()
              \* filters nothing; the join to Category is many-to-one, so
              \* distinct() finds one row per product
              IF value.kind # "text" THEN {}
              ELSE LET search_terms == split(value.s)
                   IN {p \in qs :
                          \/ search_terms = <<>>
                          \/ \E i \in 1..Len(search_terms) :
                                 term_matches(db, p, search_terms[i])}

\* the order in which get_queryset applies its filters
FilterOrder ==
    <<"category", "min_price", "max_price", "in_stock", "min_stock",
      "created_after", "created_before", "search">>

RECURSIVE filter_chain(_, _, _, _)
filter_chain(db, qs, keys, q) ==
    IF keys = <<>> THEN qs
    ELSE filter_chain(db, filter_by(db, qs, Head(keys), q), Tail(keys), q)

\* get_queryset with a search that starts again from every product
get_queryset_search_restarts(db, q) ==
    IF q.search = Missing
    THEN filter_chain(db, DOMAIN db.catalog, FilterOrder, q)
    ELSE filter_by(db, DOMAIN db.catalog, "search", q)

\* ProductViewSet.get_queryset
get_queryset(db, q) == filter_chain(db, DOMAIN db.catalog, FilterOrder, q)

\* filters.SearchFilter.get_search_terms: commas separate terms as
\* whitespace does
get_search_terms(q) ==
    IF q.search.kind = "text" THEN split(replace(q.search.s, ",", " "))
    ELSE <<>>

\* filter_backends without the search backend
SearchFilter_off(db, qs, q) == qs

\* filters.SearchFilter over search_fields: every term in some field
SearchFilter(db, qs, q) ==
    {p \in qs : \A i \in 1..Len(get_search_terms(q)) :
                    term_matches(db, p, get_search_terms(q)[i])}

\* ordering = ['-created_date']
RECURSIVE OrderingFilter(_, _)
OrderingFilter(db, qs) ==
    IF qs = {} THEN <<>>
    ELSE LET p == CHOOSE r \in qs :
                      \A o \in qs :
                          \/ db.catalog[o].created_date < db.catalog[r].created_date
                          \/ /\ db.catalog[o].created_date = db.catalog[r].created_date
                             /\ o <= r
         IN <<p>> \o OrderingFilter(db, qs \ {p})

\* ProductViewSet.list: filter_queryset(get_queryset()), one page
ProductViewSet_list(db, q) ==
    [params |-> q, status |-> 200,
     results |-> OrderingFilter(db, SearchFilter(db, get_queryset(db, q), q))]

\* Python's truth of a query string: absent and empty are false
truthy(value) ==
    /\ value # Missing
    /\ ~(value.kind = "text" /\ value.s = <<>>)

\* CategoryViewSet.products: the products of one category, narrowed by the
\* whole search text in name or description, the price range and
\* in_stock=true; the rows come in the order of Product.Meta
CategoryViewSet_products(db, cid, q) ==
    IF cid \notin DOMAIN db.categories
    THEN [params |-> q, status |-> 404, results |-> <<>>]
    ELSE LET products == {p \in DOMAIN db.catalog : db.catalog[p].category = cid}
             searched ==
                 IF truthy(q.search)
                 THEN IF q.search.kind # "text" THEN {}
                      ELSE {p \in products :
                               \/ icontains(db.catalog[p].name, q.search.s)
                               \/ icontains(db.catalog[p].description, q.search.s)}
                 ELSE products
             above ==
                 IF truthy(q.min_price) /\ float(q.min_price).ok
                 THEN {p \in searched : db.price[p] >= float(q.min_price).v}
                 ELSE searched
             below ==
                 IF truthy(q.max_price) /\ float(q.max_price).ok
                 THEN {p \in above : db.price[p] <= float(q.max_price).v}
                 ELSE above
             stocked ==
                 IF /\ q.in_stock # Missing
                    /\ q.in_stock.kind = "text"
                    /\ lower(q.in_stock.s) = <<"t", "r", "u", "e">>
                 THEN {p \in below : db.stock[p] > 0}
                 ELSE below
         IN [params |-> q, status |-> 200,
             results |-> OrderingFilter(db, stocked)]

\* ProductViewSet.low_stock: get_queryset() narrowed to a stock below ten;
\* the action does not pass the queryset through filter_backends
ProductViewSet_low_stock(db, q) ==
    [params |-> q, status |-> 200,
     results |-> OrderingFilter(db,
                    {p \in get_queryset(db, q) : db.stock[p] < LowStock})]

\* ------------------------------------------------------------ the gateway
\* what a request presents: no credential, a token that does not verify, a
\* token past its lifetime, or the valid token of a user
Credentials == {"none", "invalid", "expired", "alice", "staff", "admin"}

\* User.is_staff: the staff and the admin user
is_staff(user) == user \in {"staff", "admin"}

\* IsAdminOrReadOnly.has_permission
IsAdminOrReadOnly(user, safe) == safe \/ (user # "" /\ is_staff(user))

\* every identity may write
permission_classes_AllowAny(view) == "AllowAny"

\* the permission class of the catalog on every view
permission_classes_of_catalog(view) == "IsAdminOrReadOnly"

\* permission_classes of the views
permission_classes(view) ==
    IF view = "catalog" THEN "IsAdminOrReadOnly"
    ELSE IF view = "register" THEN "AllowAny"
    ELSE "IsAuthenticated"

\* BasePermission.has_permission of the class named
has_permission(permission, user, safe) ==
    CASE permission = "AllowAny" -> TRUE
      [] permission = "IsAuthenticated" -> user # ""
      [] OTHER -> IsAdminOrReadOnly(user, safe)

\* APIView.initial: authentication, then the permission check; 0 when the
\* request goes on to the handler
APIView_initial(cred, view, safe) ==
    IF cred \in {"invalid", "expired"} THEN 401
    ELSE LET user == IF cred = "none" THEN "" ELSE cred
         IN IF has_permission(permission_classes(view), user, safe) THEN 0
            ELSE IF user = "" THEN 401
            ELSE 403

\* a request on a route of the catalog, through the gateway
CatalogRequest(db, cred, route) ==
    LET denied == APIView_initial(cred, "catalog", route.action \in ReadActions)
    IN IF denied # 0 THEN Response(db, denied, "denied", {})
       ELSE CatalogHandler(db, route)

\* ------------------------------------------ the account's handlers
\* UserProfileView.retrieve
UserProfileView_retrieve(db, user) == Response(db, 200, "ok", {user})

\* UserProfileView.partial_update with {"email": ...}:
\* UserProfileSerializer.validate_email, then the UPDATE
UserProfileView_partial_update(db, user, data) ==
    IF \E u \in DOMAIN db.users \ {user} : db.users[u].email = data.email
    THEN Response(db, 400, "email_taken", {})
    ELSE Response([db EXCEPT !.users[user].email = data.email], 200, "ok", {user})

\* validate_password of django.contrib.auth, of which the model keeps one
\* password that fails
validate_password(value) == value # "weak"

\* PasswordChangeView.update: PasswordChangeSerializer.is_valid and save
PasswordChangeView_update(db, user, data) ==
    IF \/ db.users[user].password # data.old_password
       \/ ~validate_password(data.new_password)
       \/ data.new_password # data.new_password_confirm
    THEN Response(db, 400, "invalid", {})
    ELSE Response([db EXCEPT !.users[user].password = data.new_password],
                  200, "ok", {})

\* a registration that accepts any password_confirm
validate_any_confirm(data) == TRUE

\* UserRegistrationSerializer.validate
validate(data) == data.password = data.password_confirm

\* UserRegistrationSerializer.validate_email
validate_email(db, value) == \A u \in DOMAIN db.users : db.users[u].email # value

\* UserRegistrationSerializer.is_valid: the required fields, the unique
\* username of the User model, validate_email, validate_password and
\* validate; "" when valid
UserRegistrationSerializer_errors(db, data) ==
    IF "" \in {data.username, data.email, data.password, data.password_confirm}
    THEN "required"
    ELSE IF data.username \in DOMAIN db.users THEN "username_taken"
    ELSE IF ~validate_email(db, data.email) THEN "email_taken"
    ELSE IF ~validate_password(data.password) THEN "weak"
    ELSE IF ~validate(data) THEN "mismatch"
    ELSE ""

\* User.objects.create_user: the INSERT; username is unique
create_user(db, data) ==
    IF data.username \in DOMAIN db.users THEN [ok |-> FALSE, db |-> db]
    ELSE [ok |-> TRUE,
          db |-> [db EXCEPT !.users = @ @@ (data.username :>
                     [email |-> data.email, password |-> data.password])]]

\* UserRegistrationView.create, run without interference: is_valid, then
\* UserRegistrationSerializer.create (create_user, Cart.objects.create)
UserRegistrationView_create(db, data) ==
    IF UserRegistrationSerializer_errors(db, data) # ""
    THEN Response(db, 400, UserRegistrationSerializer_errors(db, data), {})
    ELSE LET user == create_user(db, data)
             cart == CartInsert(user.db, data.username)
         IN IF user.ok /\ cart.ok THEN Response(cart.db, 201, "created", {data.username})
            ELSE Response(user.db, 500, "IntegrityError", {})

\* the routes of the cart, the wishlist, the profile and the password that
\* read
AccountReads == {"cart_list", "wishlist_list", "profile_retrieve"}

\* the handler a route of the signed-in user runs, as request.user = user
AccountHandler(db, user, route) ==
    CASE route.action = "cart_list" -> CartViewSet_list(db, user)
      [] route.action = "cart_create" ->
            CartViewSet_create(db, user, route.id, route.data.quantity)
      [] route.action = "cart_update_item" ->
            CartViewSet_update_item(db, user, route.id, route.data.quantity)
      [] route.action = "cart_remove_item" ->
            CartViewSet_remove_item(db, user, route.id)
      [] route.action = "cart_clear" -> CartViewSet_clear(db, user)
      [] route.action = "wishlist_list" -> WishlistViewSet_list(db, user)
      [] route.action = "wishlist_create" ->
            WishlistViewSet_create(db, user, route.id)
      [] route.action = "wishlist_destroy" ->
            WishlistViewSet_destroy(db, user, route.id)
      [] route.action = "wishlist_remove_by_product" ->
            WishlistViewSet_remove_by_product(db, user, route.id)
      [] route.action = "profile_retrieve" -> UserProfileView_retrieve(db, user)
      [] route.action = "profile_update" ->
            UserProfileView_partial_update(db, user, route.data)
      [] OTHER -> PasswordChangeView_update(db, user, route.data)

\* a request on a route of the signed-in user, through the gateway
AccountRequest(db, cred, route) ==
    LET denied == APIView_initial(cred, "account", route.action \in AccountReads)
    IN IF denied # 0 THEN Response(db, denied, "denied", {})
       ELSE AccountHandler(db, IF cred = "none" THEN "" ELSE cred, route)

\* ---------------------------------------------------------------- actions
\* the store after a handler, kept within the bounds of the model
Commit(db) ==
    /\ db.nextId.item <= MaxItemId + 1
    /\ db.nextId.wish <= MaxWishId + 1
    /\ db.nextId.product <= MaxProductId + 1
    /\ db.nextId.category <= MaxCategoryId + 1
    /\ \A p \in DOMAIN db.stock : db.stock[p] <= MaxStock
    /\ stock' = db.stock
    /\ price' = db.price
    /\ catalog' = db.catalog
    /\ categories' = db.categories
    /\ users' = db.users
    /\ carts' = db.carts
    /\ cartItems' = db.cartItems
    /\ wishlists' = db.wishlists
    /\ nextId' = db.nextId

Request(op, r) == [op |-> op, status |-> r.status, detail |-> r.detail]

Quiet == \A s \in Clients : reqs[s].pc = "idle"

Handle(op, r) ==
    /\ Quiet
    /\ Commit(r.db)
    /\ last' = Request(op, r)
    /\ UNCHANGED <<reqs, started, listing>>

\* the cart handlers as one signed-in user calls them
View ==
    Handle("view", CartViewSet_list(DB, Shopper))

Add ==
    \E pid \in Products \cup {NoProduct}, raw \in QuantityValues :
        Handle("add", CartViewSet_create(DB, Shopper, pid, raw))

SetQuantity ==
    \E itemId \in ItemIds, raw \in QuantityValues :
        Handle("set", CartViewSet_update_item(DB, Shopper, itemId, raw))

Remove ==
    \E itemId \in ItemIds :
        Handle("remove", CartViewSet_remove_item(DB, Shopper, itemId))

Clear ==
    Handle("clear", CartViewSet_clear(DB, Shopper))

WishList ==
    \E u \in Users :
        Handle("wlist", WishlistViewSet_list(DB, u))

WishAdd ==
    \E u \in Users, pid \in Products \cup {NoProduct} :
        Handle("wadd", WishlistViewSet_create(DB, u, pid))

WishRemove ==
    \E u \in Users, pk \in WishIds :
        Handle("wremove", WishlistViewSet_destroy(DB, u, pk))

WishRemoveByProduct ==
    \E u \in Users, pid \in Products \cup {NoProduct} :
        Handle("wremovep", WishlistViewSet_remove_by_product(DB, u, pid))

UpdateStock ==
    \E pid \in Products \cup {NoProduct}, raw \in ChangeValues :
        Handle("stock", ProductViewSet_update_stock(DB, pid, raw))

\* the prices a staff identity sends, in units of 0.01
PriceValues == {Junk} \cup {IntVal(i) : i \in 0..MaxPrice}

UpdatePrice ==
    \E pid \in Products \cup {NoProduct}, raw \in PriceValues :
        Handle("price", ProductViewSet_partial_update_price(DB, pid, raw))

Next ==
    \/ View
    \/ Add
    \/ SetQuantity
    \/ Remove
    \/ Clear
    \/ UpdateStock

Spec == Init /\ [][Next]_vars

\* one shopper's cart over a catalog in full stock whose prices the staff
\* changes
InitPrice ==
    /\ Init
    /\ stock = [p \in Products |-> MaxStock]

NextPrice ==
    \/ View
    \/ Add
    \/ SetQuantity
    \/ Remove
    \/ Clear
    \/ UpdatePrice

SpecPrice == InitPrice /\ [][NextPrice]_vars

\* ----------------------------------------------- reading the product list
MaxSearchLen == 4

\* the texts of a search parameter
SearchAlphabet == {"a", "B", " ", ","}

SearchTexts == UNION {[1..n -> SearchAlphabet] : n \in 0..MaxSearchLen}

SearchQueries == {[NoParams EXCEPT !.search = Text(s)] : s \in SearchTexts}

\* the requests that combine the filters, with values that parse and
\* values that do not
FilterQueries ==
    {[category |-> c, min_price |-> lo, max_price |-> hi, in_stock |-> a,
      min_stock |-> m, created_after |-> f, created_before |-> t, search |-> s] :
        c \in {Missing, StrVal(1), Text(<<"b">>)},
        lo \in {Missing, DecimalStr(1), Invalid},
        hi \in {Missing, StrVal(1), Invalid},
        a \in {Missing, Text(<<"T", "r", "u", "e">>),
                Text(<<"f", "a", "l", "s", "e">>), Invalid},
        m \in {Missing, StrVal(1), DecimalStr(1)},
        f \in {Missing, IsoZVal(2), Invalid},
        t \in {Missing, IsoVal(1)},
        s \in {Missing, Text(<<"a">>)}}

\* a catalog of two categories and two products. The first product takes
\* every name and description of the model at one stock and price, or
\* every stock and price at one name and description.
ListCategories == (1 :> <<"a">>) @@ (2 :> <<"B">>)

ListNames == {<<"a">>, <<"A", " ", "b">>, <<"b", "a">>, <<"a", ",">>}

InitList ==
    \E name \in ListNames, description \in {<<>>, <<"b">>},
       category \in DOMAIN ListCategories, s \in 0..MaxStock,
       amount \in {100, 200} :
        /\ \/ s = 1 /\ amount = 100
           \/ name = <<"a">> /\ description = <<>>
        /\ stock = (1 :> s) @@ (2 :> LowStock)
        /\ price = (1 :> amount) @@ (2 :> 150)
        /\ catalog = (1 :> [name |-> name, description |-> description,
                            category |-> category, created_date |-> 1])
                     @@ (2 :> [name |-> <<"b">>, description |-> <<>>,
                               category |-> 2, created_date |-> 2])
        /\ categories = ListCategories
        /\ listing = NoListing
        /\ users = FirstUsers
        /\ carts = {}
        /\ cartItems = {}
        /\ wishlists = {}
        /\ nextId = [cart |-> 1, item |-> 1, wish |-> 1, product |-> 3,
                     category |-> 3]
        /\ reqs = [c \in Clients |-> Idle]
        /\ started = 0
        /\ last = NoRequest

\* one list request on the store. The handler writes nothing, so a second
\* request would find the store the first found: a behaviour serves one.
ListProducts(queries) ==
    /\ listing = NoListing
    /\ \E q \in queries : listing' = ProductViewSet_list(DB, q)
    /\ UNCHANGED <<stock, price, catalog, categories, users, carts, cartItems,
                   wishlists, nextId, reqs, started, last>>

NextList ==
    \/ ListProducts(SearchQueries)
    \/ ListProducts(FilterQueries)

SpecList == InitList /\ [][NextList]_vars

\* the requests on the routes of the catalog, by every kind of caller
Route(action, id, data) == [action |-> action, id |-> id, data |-> data]

CatalogRoutes ==
    LET pids == (1..MaxProductId) \cup {NoProduct}
        cids == (1..MaxCategoryId) \cup {NoRow}
        names == {<<>>, <<"a">>, <<"c">>}
        prices == {Junk, IntVal(0), IntVal(1)}
    IN {Route("product_create", NoRow,
              [NoData EXCEPT !.name = n, !.price = v, !.stock_quantity = 1,
                             !.category = c]) :
            n \in {<<>>, <<"c">>}, v \in prices, c \in {1, NoRow}}
       \cup {Route("product_update", pid, [NoData EXCEPT !.price = v]) :
                 pid \in pids, v \in prices}
       \cup {Route("update_stock", pid, [NoData EXCEPT !.change = v]) :
                 pid \in pids, v \in {Junk, IntVal(0 - 1)}}
       \cup {Route("category_create", NoRow, [NoData EXCEPT !.name = n]) :
                 n \in names}
       \cup {Route("category_update", cid, [NoData EXCEPT !.name = n]) :
                 cid \in cids, n \in names}
       \cup {Route(a, pid, NoData) :
                 a \in {"product_destroy", "product_retrieve"}, pid \in pids}
       \cup {Route(a, cid, NoData) :
                 a \in {"category_destroy", "category_retrieve", "category_products"},
                 cid \in cids}
       \cup {Route(a, NoRow, NoData) :
                 a \in {"product_list", "low_stock", "category_list"}}

\* a request on the route of one handler, by an anonymous caller, a
\* signed-in user or a staff identity
Call(action) ==
    \E cred \in {"none", "alice", "staff"} :
        \E route \in {r \in CatalogRoutes : r.action = action} :
            Handle("catalog", CatalogRequest(DB, cred, route))

InitCatalog ==
    /\ Init
    /\ stock = [p \in Products |-> 1]

NextCatalog ==
    \/ Call("product_create")
    \/ Call("product_update")
    \/ Call("product_destroy")
    \/ Call("update_stock")
    \/ Call("category_create")
    \/ Call("category_update")
    \/ Call("category_destroy")
    \/ \E action \in ReadActions : Call(action)

SpecCatalog == InitCatalog /\ [][NextCatalog]_vars

\* the requests on the routes of the signed-in user
AccountRoutes ==
    LET pids == Products \cup {NoProduct}
        quantities == {Junk, IntVal(1)}
    IN {Route("cart_create", pid, [NoData EXCEPT !.quantity = q]) :
            pid \in pids, q \in quantities}
       \cup {Route("cart_update_item", itemId, [NoData EXCEPT !.quantity = q]) :
                 itemId \in ItemIds, q \in quantities}
       \cup {Route("cart_remove_item", itemId, NoData) : itemId \in ItemIds}
       \cup {Route(a, pid, NoData) :
                 a \in {"wishlist_create", "wishlist_remove_by_product"},
                 pid \in pids}
       \cup {Route("wishlist_destroy", pk, NoData) : pk \in WishIds}
       \cup {Route("profile_update", NoRow, [NoData EXCEPT !.email = e]) :
                 e \in {"bob", "carol"}}
       \cup {Route("password_change", NoRow,
                   [NoData EXCEPT !.old_password = o, !.new_password = n,
                                  !.new_password_confirm = "second"]) :
                 o \in {"first", "second"}, n \in {"second", "weak"}}
       \cup {Route(a, NoRow, NoData) :
                 a \in AccountReads \cup {"cart_clear"}}

\* a request on the route of one handler, without a credential, with an
\* expired one or as alice
Ask(action) ==
    \E cred \in {"none", "expired", "alice"} :
        \E route \in {r \in AccountRoutes : r.action = action} :
            Handle("account", AccountRequest(DB, cred, route))

InitAccount ==
    /\ Init
    /\ stock = [p \in Products |-> 1]

NextAccount ==
    \/ Ask("cart_list")
    \/ Ask("cart_create")
    \/ Ask("cart_update_item")
    \/ Ask("cart_remove_item")
    \/ Ask("cart_clear")
    \/ Ask("wishlist_list")
    \/ Ask("wishlist_create")
    \/ Ask("wishlist_destroy")
    \/ Ask("wishlist_remove_by_product")
    \/ Ask("profile_retrieve")
    \/ Ask("profile_update")
    \/ Ask("password_change")

SpecAccount == InitAccount /\ [][NextAccount]_vars

\* the wishlist handlers, each run to completion
NextWish ==
    \/ WishList
    \/ WishAdd
    \/ WishRemove
    \/ WishRemoveByProduct

SpecWish == Init /\ [][NextWish]_vars

\* the cart and wishlist handlers of both users together, over a catalog
\* with two units of product 1 and one unit of product 2
InitOwn ==
    /\ Init
    /\ stock = [p \in Products |-> IF p = 1 THEN 2 ELSE 1]

UserView ==
    \E u \in Users :
        Handle("view", CartViewSet_list(DB, u))

UserRemove ==
    \E u \in Users, itemId \in ItemIds :
        Handle("remove", CartViewSet_remove_item(DB, u, itemId))

UserClear ==
    \E u \in Users :
        Handle("clear", CartViewSet_clear(DB, u))

\* Add of one unit of a product of the catalog
AddOne ==
    \E u \in Users, pid \in Products :
        Handle("add", CartViewSet_create(DB, u, pid, IntVal(1)))

\* SetQuantity to two units
SetTwo ==
    \E u \in Users, itemId \in ItemIds :
        Handle("set", CartViewSet_update_item(DB, u, itemId, IntVal(2)))

\* wishlist Add of product 1
WishAddFirst ==
    \E u \in Users :
        Handle("wadd", WishlistViewSet_create(DB, u, 1))

NextOwn ==
    \/ UserView
    \/ AddOne
    \/ SetTwo
    \/ UserRemove
    \/ UserClear
    \/ WishAddFirst
    \/ WishRemove

SpecOwn == InitOwn /\ [][NextOwn]_vars

\* ------------------------------------------------- interleaved requests
\* Every ORM call of a handler is one step; what the handler holds between
\* two calls (the instances it fetched) is in its record of reqs.

\* a store left by earlier requests: alice has no cart yet, or a cart that
\* holds nothing or one item of product 1
InitConc ==
    /\ stock \in [Products -> 0..MaxStock]
    /\ price = FirstPrice
    /\ catalog = FirstCatalog
    /\ categories = FirstCategories
    /\ listing = NoListing
    /\ users = FirstUsers
    /\ \E e \in (0 - 1)..MaxStock :
          /\ carts = IF e < 0 THEN {} ELSE {[id |-> 1, user |-> "alice"]}
          /\ cartItems = IF e < 1 THEN {}
                         ELSE {[id |-> 1, cart |-> 1, product |-> 1, quantity |-> e]}
          /\ nextId = [cart |-> IF e < 0 THEN 1 ELSE 2,
                       item |-> IF e < 1 THEN 1 ELSE 2, wish |-> 1,
                       product |-> 3, category |-> 2]
    /\ wishlists = {}
    /\ reqs = [s \in Clients |-> Idle]
    /\ started = 0
    /\ last = NoRequest

ConcQuantities == {Junk} \cup {IntVal(i) : i \in 1..MaxStock}
ConcChanges == {IntVal(0 - 1), IntVal(1)}

\* the quantity u's cart holds of product pid, 0 when it holds none
HeldQuantity(db, u, pid) ==
    SumQuantity({i \in ItemsOfUser(db.carts, db.cartItems, u) : i.product = pid})

Free(s) == reqs[s].pc \in {"idle", "done"} /\ started < MaxRequests

Begin(s, r) ==
    /\ Free(s)
    /\ reqs' = [reqs EXCEPT ![s] = r]
    /\ started' = started + 1
    /\ UNCHANGED <<stock, price, catalog, categories, listing, users, carts,
                   cartItems, wishlists, nextId, last>>

\* one ORM call of the request of client s: the store and the handler's
\* locals after it
Step(s, db, r) ==
    /\ Commit(db)
    /\ reqs' = [reqs EXCEPT ![s] = r]
    /\ UNCHANGED <<started, last, listing>>

\* the response is sent: the handler's locals are gone
Done(r, status, detail) ==
    [r EXCEPT !.pc = "done", !.status = status, !.detail = detail,
              !.cart = NoRow, !.item = NoItem, !.seen = 0]

\* --- CartViewSet.create
StartAdd(s) ==
    \E u \in Users, pid \in Products, raw \in ConcQuantities :
        Begin(s, [Idle EXCEPT !.pc = "add_cart_get", !.op = "add", !.user = u,
                              !.pid = pid, !.raw = raw,
                              !.base = HeldQuantity(DB, u, pid)])

\* lines 303-317: the quantity is read and checked once the cart is there
create_quantity(r, cartId) ==
    LET quantity == int(DataGet(r.raw, IntVal(1)))
    IN IF ~quantity.ok THEN Done(r, 400, "invalid")
       ELSE IF quantity.v < 1 THEN Done(r, 400, "at_least_1")
       ELSE [r EXCEPT !.pc = "add_product", !.cart = cartId]

\* line 302, get_or_create: the SELECT
create_cart_get(s) ==
    LET r == reqs[s]
        found == CartsOf(carts, r.user)
    IN /\ r.pc = "add_cart_get"
       /\ Step(s, DB, IF found = {} THEN [r EXCEPT !.pc = "add_cart_create"]
                      ELSE create_quantity(r, (CHOOSE c \in found : TRUE).id))

\* line 302, get_or_create: the INSERT, and on IntegrityError the SELECT of
\* the row that won (Cart rows are never deleted)
create_cart_create(s) ==
    LET r == reqs[s]
        ins == CartInsert(DB, r.user)
    IN /\ r.pc = "add_cart_create"
       /\ Step(s, ins.db,
               create_quantity(r, IF ins.ok THEN ins.id
                                  ELSE (CHOOSE c \in CartsOf(carts, r.user) : TRUE).id))

\* lines 319-332: Product.objects.get and the first stock check
create_product(s) ==
    LET r == reqs[s]
        quantity == int(DataGet(r.raw, IntVal(1))).v
    IN /\ r.pc = "add_product"
       /\ Step(s, DB,
               IF r.pid \notin DOMAIN stock THEN Done(r, 404, "not_found")
               ELSE IF requested_exceeds_stock(quantity, stock[r.pid])
                    THEN Done(r, 400, "exceeds")
               ELSE [r EXCEPT !.pc = "add_item_get", !.seen = stock[r.pid]])

\* lines 341-349: the item exists; the merged quantity against the stock
\* of the product instance fetched at line 320
create_merge(r, item) ==
    LET total == new_quantity(item.quantity, int(DataGet(r.raw, IntVal(1))).v)
    IN IF total_exceeds_stock(total, r.seen) THEN Done(r, 400, "total_exceeds")
       ELSE [r EXCEPT !.pc = "add_save",
                      !.item = [item EXCEPT !.quantity = total]]

\* line 335, get_or_create: the SELECT
create_item_get(s) ==
    LET r == reqs[s]
        found == ItemsFor(DB, r.cart, r.pid)
    IN /\ r.pc = "add_item_get"
       /\ Step(s, DB, IF found = {} THEN [r EXCEPT !.pc = "add_item_create"]
                      ELSE create_merge(r, CHOOSE i \in found : TRUE))

\* line 335, get_or_create: the INSERT
create_item_create(s) ==
    LET r == reqs[s]
        ins == ItemInsert(DB, r.cart, r.pid, int(DataGet(r.raw, IntVal(1))).v)
    IN /\ r.pc = "add_item_create"
       /\ Step(s, ins.db, IF ins.ok THEN Done(r, 201, "created")
                          ELSE [r EXCEPT !.pc = "add_item_reget"])

\* line 335, get_or_create: the SELECT after an IntegrityError, which is
\* raised again when the row is gone
create_item_reget(s) ==
    LET r == reqs[s]
        found == ItemsFor(DB, r.cart, r.pid)
    IN /\ r.pc = "add_item_reget"
       /\ Step(s, DB, IF found = {} THEN Done(r, 500, "IntegrityError")
                      ELSE create_merge(r, CHOOSE i \in found : TRUE))

\* line 350: cart_item.save()
create_save(s) ==
    LET r == reqs[s]
        sv == ItemSave(DB, r.item)
    IN /\ r.pc = "add_save"
       /\ Step(s, sv.db, IF sv.ok THEN Done(r, 201, "merged")
                         ELSE Done(r, 500, "IntegrityError"))

\* --- CartViewSet.update_item
StartSet(s) ==
    \E u \in Users, itemId \in ItemIds, raw \in ConcQuantities :
        Begin(s, [Idle EXCEPT !.pc = "set_item_get", !.op = "set", !.user = u,
                              !.itemId = itemId, !.raw = raw])

\* lines 358-387: CartItem.objects.get, then the checks of the quantity
update_item_get(s) ==
    LET r == reqs[s]
        found == ItemGet(DB, r.itemId, r.user)
        quantity == int(DataGetNone(r.raw))
    IN /\ r.pc = "set_item_get"
       /\ Step(s, DB,
               IF found = {} THEN Done(r, 404, "not_found")
               ELSE IF DataGetNone(r.raw) = Null THEN Done(r, 400, "required")
               ELSE IF ~quantity.ok THEN Done(r, 400, "invalid")
               ELSE IF quantity.v < 1 THEN Done(r, 400, "at_least_1")
               ELSE [r EXCEPT !.pc = "set_product",
                              !.item = CHOOSE i \in found : TRUE])

\* lines 389-396: cart_item.product is fetched here, and its stock checked
update_item_product(s) ==
    LET r == reqs[s]
        quantity == int(DataGetNone(r.raw)).v
    IN /\ r.pc = "set_product"
       /\ Step(s, DB,
               IF update_exceeds_stock(quantity, stock[r.item.product])
               THEN Done(r, 400, "exceeds")
               ELSE [r EXCEPT !.pc = "set_save", !.seen = stock[r.item.product],
                              !.item = [r.item EXCEPT !.quantity = quantity]])

\* line 397: cart_item.save()
update_item_save(s) ==
    LET r == reqs[s]
        sv == ItemSave(DB, r.item)
    IN /\ r.pc = "set_save"
       /\ Step(s, sv.db, IF sv.ok THEN Done(r, 200, "ok")
                         ELSE Done(r, 500, "IntegrityError"))

\* --- CartViewSet.remove_item
StartRemove(s) ==
    \E u \in Users, itemId \in ItemIds :
        Begin(s, [Idle EXCEPT !.pc = "remove_item_get", !.op = "remove",
                              !.user = u, !.itemId = itemId])

\* lines 405-414: CartItem.objects.get
remove_item_get(s) ==
    LET r == reqs[s]
        found == ItemGet(DB, r.itemId, r.user)
    IN /\ r.pc = "remove_item_get"
       /\ Step(s, DB, IF found = {} THEN Done(r, 404, "not_found")
                      ELSE [r EXCEPT !.pc = "remove_delete",
                                     !.item = CHOOSE i \in found : TRUE])

\* line 416: cart_item.delete()
remove_item_delete(s) ==
    LET r == reqs[s]
    IN /\ r.pc = "remove_delete"
       /\ Step(s, ItemDelete(DB, r.item.id), Done(r, 200, "ok"))

\* --- CartViewSet.clear
StartClear(s) ==
    \E u \in Users :
        Begin(s, [Idle EXCEPT !.pc = "clear_cart_get", !.op = "clear", !.user = u])

\* line 424, get_or_create: the SELECT
clear_cart_get(s) ==
    LET r == reqs[s]
        found == CartsOf(carts, r.user)
    IN /\ r.pc = "clear_cart_get"
       /\ Step(s, DB, IF found = {} THEN [r EXCEPT !.pc = "clear_cart_create"]
                      ELSE [r EXCEPT !.pc = "clear_delete",
                                     !.cart = (CHOOSE c \in found : TRUE).id])

\* line 424, get_or_create: the INSERT (or the row that won)
clear_cart_create(s) ==
    LET r == reqs[s]
        ins == CartInsert(DB, r.user)
    IN /\ r.pc = "clear_cart_create"
       /\ Step(s, ins.db,
               [r EXCEPT !.pc = "clear_delete",
                         !.cart = IF ins.ok THEN ins.id
                                  ELSE (CHOOSE c \in CartsOf(carts, r.user) : TRUE).id])

\* line 425: cart.items.all().delete()
clear_delete(s) ==
    LET r == reqs[s]
    IN /\ r.pc = "clear_delete"
       /\ Step(s, [DB EXCEPT !.cartItems = @ \ ItemsOf(@, r.cart)],
               Done(r, 200, "ok"))

\* --- ProductViewSet.update_stock
StartStock(s) ==
    \E pid \in Products, raw \in ConcChanges :
        Begin(s, [Idle EXCEPT !.pc = "stock_get_object", !.op = "stock",
                              !.user = "staff", !.pid = pid, !.raw = raw])

\* an update_stock without the check of lines 203-207
update_stock_get_object_unchecked(s) ==
    LET r == reqs[s]
        quantity_change == int(DataGet(r.raw, IntVal(0)))
    IN /\ r.pc = "stock_get_object"
       /\ Step(s, DB, [r EXCEPT !.pc = "stock_save",
                                !.seen = stock[r.pid] + quantity_change.v])

\* lines 196-207: get_object and the new stock computed from the instance
update_stock_get_object(s) ==
    LET r == reqs[s]
        quantity_change == int(DataGet(r.raw, IntVal(0)))
        new_stock == stock[r.pid] + quantity_change.v
    IN /\ r.pc = "stock_get_object"
       /\ r.pid \in DOMAIN stock => new_stock <= MaxStock
       /\ Step(s, DB,
               IF r.pid \notin DOMAIN stock THEN Done(r, 404, "not_found")
               ELSE IF ~quantity_change.ok THEN Done(r, 400, "invalid")
               ELSE IF new_stock < 0 THEN Done(r, 400, "negative")
               ELSE [r EXCEPT !.pc = "stock_save", !.seen = new_stock])

\* lines 209-210: product.save()
update_stock_save(s) ==
    LET r == reqs[s]
    IN /\ r.pc = "stock_save"
       /\ Step(s, [DB EXCEPT !.stock[r.pid] = r.seen], Done(r, 200, "ok"))

NextConc ==
    \E s \in Clients :
        \/ StartAdd(s)
        \/ create_cart_get(s)
        \/ create_cart_create(s)
        \/ create_product(s)
        \/ create_item_get(s)
        \/ create_item_create(s)
        \/ create_item_reget(s)
        \/ create_save(s)
        \/ StartSet(s)
        \/ update_item_get(s)
        \/ update_item_product(s)
        \/ update_item_save(s)
        \/ StartRemove(s)
        \/ remove_item_get(s)
        \/ remove_item_delete(s)
        \/ StartClear(s)
        \/ clear_cart_get(s)
        \/ clear_cart_create(s)
        \/ clear_delete(s)
        \/ StartStock(s)
        \/ update_stock_get_object(s)
        \/ update_stock_save(s)

SpecConc == InitConc /\ [][NextConc]_vars

\* the interleavings of the cart requests alone, over a catalog in full stock
InitCart ==
    /\ InitConc
    /\ stock = [p \in Products |-> MaxStock]

NextCart ==
    \E s \in Clients :
        \/ StartAdd(s)
        \/ create_cart_get(s)
        \/ create_cart_create(s)
        \/ create_product(s)
        \/ create_item_get(s)
        \/ create_item_create(s)
        \/ create_item_reget(s)
        \/ create_save(s)
        \/ StartSet(s)
        \/ update_item_get(s)
        \/ update_item_product(s)
        \/ update_item_save(s)
        \/ StartRemove(s)
        \/ remove_item_get(s)
        \/ remove_item_delete(s)
        \/ StartClear(s)
        \/ clear_cart_get(s)
        \/ clear_cart_create(s)
        \/ clear_delete(s)

SpecCart == InitCart /\ [][NextCart]_vars

\* --- WishlistViewSet.create
StartWishAdd(s) ==
    \E u \in Users, pid \in Products \cup {NoProduct} :
        Begin(s, [Idle EXCEPT !.pc = "wadd_is_valid", !.op = "wadd", !.user = u,
                              !.pid = pid])

\* lines 446-447: serializer.is_valid(raise_exception=True)
wishlist_create_is_valid(s) ==
    LET r == reqs[s]
        errors == WishlistSerializer_errors(DB, r.user, r.pid)
    IN /\ r.pc = "wadd_is_valid"
       /\ Step(s, DB, IF errors # "" THEN Done(r, 400, errors)
                      ELSE [r EXCEPT !.pc = "wadd_product"])

\* lines 450-457: Product.objects.get
wishlist_create_product(s) ==
    LET r == reqs[s]
    IN /\ r.pc = "wadd_product"
       /\ Step(s, DB, IF r.pid \notin DOMAIN stock THEN Done(r, 404, "not_found")
                      ELSE [r EXCEPT !.pc = "wadd_insert"])

\* lines 460-463: Wishlist.objects.create; its IntegrityError is not caught
wishlist_create_insert(s) ==
    LET r == reqs[s]
        ins == WishlistInsert(DB, r.user, r.pid)
    IN /\ r.pc = "wadd_insert"
       /\ Step(s, ins.db, IF ins.ok THEN Done(r, 201, "created")
                          ELSE Done(r, 500, "IntegrityError"))

\* --- WishlistViewSet.destroy
StartWishRemove(s) ==
    \E u \in Users, pk \in WishIds :
        Begin(s, [Idle EXCEPT !.pc = "wremove_get", !.op = "wremove",
                              !.user = u, !.itemId = pk])

\* lines 470-479: Wishlist.objects.get(pk=pk, user=request.user)
wishlist_destroy_get(s) ==
    LET r == reqs[s]
    IN /\ r.pc = "wremove_get"
       /\ Step(s, DB, IF WishlistGet(DB, r.itemId, r.user) = {}
                      THEN Done(r, 404, "not_found")
                      ELSE [r EXCEPT !.pc = "wremove_delete"])

\* line 481: wishlist_item.delete()
wishlist_destroy_delete(s) ==
    LET r == reqs[s]
    IN /\ r.pc = "wremove_delete"
       /\ Step(s, WishlistDelete(DB, r.itemId), Done(r, 204, "removed"))

\* --- WishlistViewSet.remove_by_product
StartWishRemoveByProduct(s) ==
    \E u \in Users, pid \in Products :
        Begin(s, [Idle EXCEPT !.pc = "wremovep_get", !.op = "wremovep",
                              !.user = u, !.pid = pid])

\* lines 490-499: Wishlist.objects.get(product_id=product_id, user=request.user)
remove_by_product_get(s) ==
    LET r == reqs[s]
        found == WishlistsFor(DB, r.user, r.pid)
    IN /\ r.pc = "wremovep_get"
       /\ Step(s, DB, IF found = {} THEN Done(r, 404, "not_found")
                      ELSE [r EXCEPT !.pc = "wremovep_delete",
                                     !.itemId = (CHOOSE w \in found : TRUE).id])

\* line 501: wishlist_item.delete()
remove_by_product_delete(s) ==
    LET r == reqs[s]
    IN /\ r.pc = "wremovep_delete"
       /\ Step(s, WishlistDelete(DB, r.itemId), Done(r, 204, "removed"))

NextWishConc ==
    \E s \in Clients :
        \/ StartWishAdd(s)
        \/ wishlist_create_is_valid(s)
        \/ wishlist_create_product(s)
        \/ wishlist_create_insert(s)
        \/ StartWishRemove(s)
        \/ wishlist_destroy_get(s)
        \/ wishlist_destroy_delete(s)
        \/ StartWishRemoveByProduct(s)
        \/ remove_by_product_get(s)
        \/ remove_by_product_delete(s)

SpecWishConc == Init /\ [][NextWishConc]_vars

\* ------------------------------------- registration and profile, interleaved
\* the bodies of POST /auth/register/
RegisterData ==
    {[NoData EXCEPT !.username = n, !.email = e, !.password = p,
                    !.password_confirm = c] :
        n \in {"alice", "carol"}, e \in {"", "bob", "carol"},
        p \in {"weak", "good"}, c \in {"good", "other"}}

\* --- UserRegistrationView.create
StartRegister(s) ==
    \E data \in RegisterData :
        Begin(s, [Idle EXCEPT !.pc = "register_is_valid", !.op = "register",
                              !.user = data.username, !.data = data])

\* views.py line 235: serializer.is_valid(raise_exception=True)
register_is_valid(s) ==
    LET r == reqs[s]
        errors == UserRegistrationSerializer_errors(DB, r.data)
    IN /\ r.pc = "register_is_valid"
       /\ Step(s, DB, IF errors # "" THEN Done(r, 400, errors)
                      ELSE [r EXCEPT !.pc = "register_create_user"])

\* serializers.py lines 203-209: User.objects.create_user
register_create_user(s) ==
    LET r == reqs[s]
        ins == create_user(DB, r.data)
    IN /\ r.pc = "register_create_user"
       /\ Step(s, ins.db, IF ins.ok THEN [r EXCEPT !.pc = "register_create_cart"]
                          ELSE Done(r, 500, "IntegrityError"))

\* serializers.py line 211: Cart.objects.create(user=user)
register_create_cart(s) ==
    LET r == reqs[s]
        ins == CartInsert(DB, r.user)
    IN /\ r.pc = "register_create_cart"
       /\ Step(s, ins.db, IF ins.ok THEN Done(r, 201, "created")
                          ELSE Done(r, 500, "IntegrityError"))

\* the request ends between create_user and Cart.objects.create (the worker
\* times out or is stopped): autocommit has kept the User row
register_abort(s) ==
    LET r == reqs[s]
    IN /\ r.pc = "register_create_cart"
       /\ Step(s, DB, Done(r, 0, "aborted"))

\* --- UserProfileView.partial_update, by a user whose row exists
StartProfile(s) ==
    \E u \in DOMAIN users, e \in {"bob", "carol"}, n \in {"", "dave"} :
        Begin(s, [Idle EXCEPT !.pc = "profile_is_valid", !.op = "profile",
                              !.user = u,
                              !.data = [NoData EXCEPT !.email = e, !.username = n]])

\* UserProfileSerializer.is_valid: username is read-only, validate_email
profile_is_valid(s) ==
    LET r == reqs[s]
    IN /\ r.pc = "profile_is_valid"
       /\ Step(s, DB,
               IF \E u \in DOMAIN users \ {r.user} : users[u].email = r.data.email
               THEN Done(r, 400, "email_taken")
               ELSE [r EXCEPT !.pc = "profile_save"])

\* serializer.save(): the UPDATE of the caller's row
profile_save(s) ==
    LET r == reqs[s]
    IN /\ r.pc = "profile_save"
       /\ Step(s, [DB EXCEPT !.users[r.user].email = r.data.email],
               Done(r, 200, "ok"))

\* --- CartViewSet.list
StartView(s) ==
    \E u \in DOMAIN users :
        Begin(s, [Idle EXCEPT !.pc = "list_cart_get", !.op = "view", !.user = u])

\* line 296, get_or_create: the SELECT; the cart is then rendered
list_cart_get(s) ==
    LET r == reqs[s]
    IN /\ r.pc = "list_cart_get"
       /\ Step(s, DB, IF CartsOf(carts, r.user) = {}
                      THEN [r EXCEPT !.pc = "list_cart_create"]
                      ELSE Done(r, 200, "ok"))

\* line 296, get_or_create: the INSERT (or the row that won)
list_cart_create(s) ==
    LET r == reqs[s]
    IN /\ r.pc = "list_cart_create"
       /\ Step(s, CartInsert(DB, r.user).db, Done(r, 200, "ok"))

\* --- CartViewSet.create and clear, by a user whose row exists
\* an Add ends after get_or_create when its quantity is no number
StartAddOf(s) ==
    \E u \in DOMAIN users :
        Begin(s, [Idle EXCEPT !.pc = "add_cart_get", !.op = "add", !.user = u,
                              !.pid = 1, !.raw = Junk])

StartClearOf(s) ==
    \E u \in DOMAIN users :
        Begin(s, [Idle EXCEPT !.pc = "clear_cart_get", !.op = "clear", !.user = u])

\* alice and bob are registered; alice may have her cart already
InitReg ==
    /\ stock = [p \in Products |-> 1]
    /\ price = FirstPrice
    /\ catalog = FirstCatalog
    /\ categories = FirstCategories
    /\ listing = NoListing
    /\ users = FirstUsers
    /\ \E had \in BOOLEAN :
          /\ carts = IF had THEN {[id |-> 1, user |-> "alice"]} ELSE {}
          /\ nextId = [cart |-> IF had THEN 2 ELSE 1, item |-> 1, wish |-> 1,
                       product |-> 3, category |-> 2]
    /\ cartItems = {}
    /\ wishlists = {}
    /\ reqs = [s \in Clients |-> Idle]
    /\ started = 0
    /\ last = NoRequest

NextReg ==
    \E s \in Clients :
        \/ StartRegister(s)
        \/ register_is_valid(s)
        \/ register_create_user(s)
        \/ register_create_cart(s)
        \/ register_abort(s)
        \/ StartProfile(s)
        \/ profile_is_valid(s)
        \/ profile_save(s)
        \/ StartView(s)
        \/ list_cart_get(s)
        \/ list_cart_create(s)
        \/ StartAddOf(s)
        \/ create_cart_get(s)
        \/ create_cart_create(s)
        \/ StartClearOf(s)
        \/ clear_cart_get(s)
        \/ clear_cart_create(s)
        \/ clear_delete(s)

SpecReg == InitReg /\ [][NextReg]_vars

\* the interleavings of update_stock calls with the requests that change a
\* cart line's quantity
NextStock ==
    \E s \in Clients :
        \/ StartStock(s)
        \/ update_stock_get_object(s)
        \/ update_stock_save(s)
        \/ StartSet(s)
        \/ update_item_get(s)
        \/ update_item_product(s)
        \/ update_item_save(s)

SpecStock == InitConc /\ [][NextStock]_vars

\* ================================================================ claims
\* the rows of u's cart that hold product pid
Held(db, u, pid) ==
    {i \in ItemsOfUser(db.carts, db.cartItems, u) : i.product = pid}

Min(a, b) == IF a <= b THEN a ELSE b

C2_NoLostUpdate ==
    \A s, t \in Clients :
        (/\ s # t
         /\ started = 2
         /\ reqs[s].pc = "done" /\ reqs[t].pc = "done"
         /\ reqs[s].op = "add" /\ reqs[t].op = "add"
         /\ reqs[s].status = 201 /\ reqs[t].status = 201
         /\ reqs[s].user = reqs[t].user
         /\ reqs[s].pid = reqs[t].pid)
        => LET held == Held(DB, reqs[s].user, reqs[s].pid)
           IN /\ Cardinality(held) = 1
              /\ \A i \in held :
                    i.quantity = Min(reqs[s].base, reqs[t].base)
                                 + int(reqs[s].raw).v + int(reqs[t].raw).v

\* C3: whenever a cart call writes a CartItem row, the quantity it writes
\* is at most the stock_quantity the product has in the store at that
\* moment.
C3_WriteWithinCurrentStock ==
    [][\A i \in cartItems' \ cartItems : i.quantity <= stock'[i.product]]_vars

\* C4: for a cart that holds product p with quantity e, Add(p, q) with
\* q >= 1 and e + q <= stock returns 201, leaves exactly one item of p, with
\* quantity e + q, and leaves every other item unchanged.
C4_AddMerges ==
    \A u \in Users, pid \in Products, q \in 1..MaxStock :
        LET held == Held(DB, u, pid)
            e == HeldQuantity(DB, u, pid)
            r == CartViewSet_create(DB, u, pid, IntVal(q))
            after == Held(r.db, u, pid)
        IN (held # {} /\ e + q <= stock[pid]) =>
              /\ r.status = 201
              /\ Cardinality(after) = 1
              /\ \A i \in after : i.quantity = e + q
              /\ r.db.cartItems \ after = cartItems \ held

\* an Add has merged, and every cart that holds an item holds two
C4_Witness ==
    /\ last.op = "add"
    /\ last.status = 201
    /\ last.detail = "merged"
    /\ \A i \in cartItems : \E j \in cartItems :
          j.cart = i.cart /\ j.product # i.product

\* C5: Add(p, q) for a cart that holds e of p (0 when it holds none) with
\* e + q > stock returns 400, creates no item and changes no item, so
\* total_items is what it was.
C5_AddBeyondStockRejected ==
    \A u \in Users, pid \in Products, q \in 1..(MaxStock + 1) :
        LET e == HeldQuantity(DB, u, pid)
            r == CartViewSet_create(DB, u, pid, IntVal(q))
        IN e + q > stock[pid] =>
              /\ r.status = 400
              /\ r.db.cartItems = cartItems
              /\ \A c \in carts :
                    total_items(r.db.cartItems, c.id) = total_items(cartItems, c.id)

C5_Witness ==
    /\ last.op = "add"
    /\ last.status = 400
    /\ last.detail = "total_exceeds"
    /\ cartItems # {}

\* C6: no cart ever holds two CartItems of the same product, whatever the
\* interleaving of Add, SetQuantity, Remove and Clear.
C6_CartItemsUnique ==
    \A i, j \in cartItems :
        (i.cart = j.cart /\ i.product = j.product) => i = j

\* an Add whose INSERT lost against the INSERT of a concurrent Add
C6_Witness ==
    \E s \in Clients :
        /\ reqs[s].pc = "add_item_reget"
        /\ ItemsFor(DB, reqs[s].cart, reqs[s].pid) # {}

\* C8: SetQuantity(item, q) of the caller's own item sets the quantity to
\* exactly q and changes no other item when q is an integer with
\* 1 <= q <= stock; with q < 1, q > stock, q missing or q not an integer it
\* returns 400 and changes nothing.
C8_SetQuantityOverwrites ==
    \A u \in Users, raw \in QuantityValues :
        \A i \in ItemsOfUser(carts, cartItems, u) :
            LET r == CartViewSet_update_item(DB, u, i.id, raw)
                integer == raw.kind \in {"int", "str"}
            IN IF integer /\ 1 <= raw.n /\ raw.n <= stock[i.product]
               THEN /\ r.status = 200
                    /\ r.db.cartItems =
                           (cartItems \ {i}) \cup {[i EXCEPT !.quantity = raw.n]}
               ELSE /\ r.status = 400
                    /\ r.db.cartItems = cartItems

\* C9: SetQuantity and Remove answer 404 for an item of another user's cart,
\* and the caller's responses are the same in any two stores that differ
\* only in the items of other users' carts.
C9_ExistenceNotLeaked ==
    \A u \in Users, itemId \in ItemIds, raw \in QuantityValues :
        LET foreign == cartItems \ ItemsOfUser(carts, cartItems, u)
            set1 == CartViewSet_update_item(DB, u, itemId, raw)
            del1 == CartViewSet_remove_item(DB, u, itemId)
        IN /\ (\E i \in foreign : i.id = itemId) =>
                 /\ set1.status = 404 /\ set1.db = DB
                 /\ del1.status = 404 /\ del1.db = DB
           /\ \A D \in SUBSET foreign :
                 LET other == [DB EXCEPT !.cartItems = @ \ D]
                     set2 == CartViewSet_update_item(other, u, itemId, raw)
                     del2 == CartViewSet_remove_item(other, u, itemId)
                 IN /\ set1.status = set2.status
                    /\ set1.detail = set2.detail
                    /\ set1.body = set2.body
                    /\ del1.status = del2.status
                    /\ del1.detail = del2.detail
                    /\ del1.body = del2.body

\* a SetQuantity got 404 while every item id it can name is in the store,
\* so the id it named is one of another user's cart
C9_Witness ==
    /\ last.op = "set"
    /\ last.status = 404
    /\ \A itemId \in ItemIds : \E i \in cartItems : i.id = itemId

\* C7: no two Wishlist rows share (user, product), and a wishlist Add whose
\* pair is in the store when the request is validated is answered 400 and
\* leaves the wishlist as it is.
C7_WishlistUnique ==
    [][/\ \A v, w \in wishlists' :
             (v.user = w.user /\ v.product = w.product) => v = w
       /\ \A s \in Clients :
             (/\ reqs[s].pc = "wadd_is_valid"
              /\ reqs'[s] # reqs[s]
              /\ WishlistsFor(DB, reqs[s].user, reqs[s].pid) # {})
             => /\ reqs'[s].pc = "done"
                /\ reqs'[s].status = 400
                /\ wishlists' = wishlists]_vars

C7_Witness ==
    \E s \in Clients :
        /\ reqs[s].pc = "done"
        /\ reqs[s].op = "wadd"
        /\ reqs[s].status = 400
        /\ reqs[s].detail = "duplicate"
        /\ WishlistsFor(DB, reqs[s].user, reqs[s].pid) # {}

\* the Cart, CartItem and Wishlist rows owned by user u
OwnedBy(db, u) ==
    [carts |-> CartsOf(db.carts, u),
     cartItems |-> ItemsOfUser(db.carts, db.cartItems, u),
     wishlists |-> WishlistsOf(db.wishlists, u)]

\* C10: a cart or wishlist request of user A creates, changes and deletes
\* no Cart, CartItem or Wishlist row of another user B, and cart View and
\* wishlist List return rows of the caller only.
C10_OwnershipIsolation ==
    \A a \in Users :
        LET view == CartViewSet_list(DB, a)
            list == WishlistViewSet_list(DB, a)
            responses ==
                {view, list, CartViewSet_clear(DB, a)}
                \cup {CartViewSet_create(DB, a, pid, raw) :
                          pid \in Products \cup {NoProduct}, raw \in QuantityValues}
                \cup {CartViewSet_update_item(DB, a, itemId, raw) :
                          itemId \in ItemIds, raw \in QuantityValues}
                \cup {CartViewSet_remove_item(DB, a, itemId) : itemId \in ItemIds}
                \cup {WishlistViewSet_create(DB, a, pid) :
                          pid \in Products \cup {NoProduct}}
                \cup {WishlistViewSet_destroy(DB, a, pk) : pk \in WishIds}
                \cup {WishlistViewSet_remove_by_product(DB, a, pid) :
                          pid \in Products \cup {NoProduct}}
        IN /\ \A r \in responses : \A b \in Users \ {a} :
                 OwnedBy(r.db, b) = OwnedBy(DB, b)
           /\ view.body \subseteq OwnedBy(view.db, a).cartItems
           /\ list.body \subseteq OwnedBy(DB, a).wishlists

\* a wishlist row was removed by its owner (who has none left, every row
\* being of product 1) while another user has a cart item and a wishlist row
C10_Witness ==
    /\ last.op = "wremove"
    /\ last.status = 204
    /\ \E b \in Users :
          /\ OwnedBy(DB, b).cartItems # {}
          /\ OwnedBy(DB, b).wishlists # {}

\* C11: Clear always returns 200 with an empty cart (no items, total_items
\* 0), also when the cart is empty or absent, and a second Clear does the
\* same on the same store; Remove of an item that was removed returns 404
\* every time and changes nothing.
C11_RemovalIdempotent ==
    \A u \in Users :
        LET c1 == CartViewSet_clear(DB, u)
            c2 == CartViewSet_clear(c1.db, u)
            empty(r) ==
                /\ r.status = 200
                /\ r.body = {}
                /\ SumQuantity(r.body) = 0
                /\ ItemsOfUser(r.db.carts, r.db.cartItems, u) = {}
                /\ \A c \in CartsOf(r.db.carts, u) :
                      total_items(r.db.cartItems, c.id) = 0
            gone(db, itemId) ==
                LET r == CartViewSet_remove_item(db, u, itemId)
                IN r.status = 404 /\ r.db = db
        IN /\ empty(c1)
           /\ empty(c2)
           /\ c2.db = c1.db
           /\ \A itemId \in ItemIds :
                 LET r1 == CartViewSet_remove_item(DB, u, itemId)
                 IN /\ r1.status = 200 =>
                          /\ gone(r1.db, itemId)
                          /\ gone(CartViewSet_remove_item(r1.db, u, itemId).db, itemId)
                    /\ (itemId < nextId.item /\ \A i \in cartItems : i.id # itemId)
                          => gone(DB, itemId)

\* a Remove got 404 when every item id had been issued and removed
C11_Witness ==
    /\ last.op = "remove"
    /\ last.status = 404
    /\ cartItems = {}
    /\ nextId.item = MaxItemId + 1

RECURSIVE PriceOfHeld(_, _, _)
\* the sum over the products ps of price x quantity held by u
PriceOfHeld(db, u, ps) ==
    IF ps = {} THEN 0
    ELSE LET p == CHOOSE x \in ps : TRUE
             held == Held(db, u, p)
         IN (IF held = {} THEN 0
             ELSE db.price[p] * (CHOOSE i \in held : TRUE).quantity)
            + PriceOfHeld(db, u, ps \ {p})

RECURSIVE CountOfHeld(_, _, _)
\* the sum over the products ps of the quantity held by u
CountOfHeld(db, u, ps) ==
    IF ps = {} THEN 0
    ELSE LET p == CHOOSE x \in ps : TRUE
             held == Held(db, u, p)
         IN (IF held = {} THEN 0 ELSE (CHOOSE i \in held : TRUE).quantity)
            + CountOfHeld(db, u, ps \ {p})

\* C12: after any cart operations and price changes, View reports
\* total_items equal to the sum of the quantities of the cart's items, and
\* total_price equal to the sum of current price x quantity.
C12_TotalsDerived ==
    \A u \in Users :
        LET view == CartViewSet_list(DB, u)
            cart == CHOOSE c \in CartsOf(view.db.carts, u) : TRUE
            data == CartSerializer_data(view.db, cart.id)
        IN /\ view.status = 200
           /\ data.total_items = CountOfHeld(DB, u, Products)
           /\ data.total_price = PriceOfHeld(DB, u, Products)
           /\ \A i \in data.items : i.subtotal = price[i.product] * i.quantity

\* a price was changed while the cart holds both products, at prices that
\* are not the first ones
C12_Witness ==
    /\ last.op = "price"
    /\ last.status = 200
    /\ \A p \in Products :
          /\ price[p] # FirstPrice[p]
          /\ Held(DB, Shopper, p) # {}

\* C13: Add with a quantity below 1 or not an integer returns 400, Add of a
\* product that does not exist returns 404 (or 400 when the quantity is
\* bad too), and neither creates or changes a CartItem.
C13_AddInputRejected ==
    \A u \in Users, pid \in Products \cup {NoProduct}, raw \in QuantityValues :
        LET r == CartViewSet_create(DB, u, pid, raw)
            given == DataGet(raw, IntVal(1))
            bad == given.kind \notin {"int", "str"} \/ given.n < 1
        IN /\ bad => r.status = 400 /\ r.db.cartItems = cartItems
           /\ (~bad /\ pid = NoProduct) =>
                 r.status = 404 /\ r.db.cartItems = cartItems

\* C14: a mutating request that returns an error leaves the whole store as
\* it was, also when the caller had no Cart row.
C14_RejectedLeavesStore ==
    \A u \in Users :
        LET responses ==
                {CartViewSet_create(DB, u, pid, raw) :
                    pid \in Products \cup {NoProduct}, raw \in QuantityValues}
                \cup {CartViewSet_update_item(DB, u, itemId, raw) :
                          itemId \in ItemIds, raw \in QuantityValues}
                \cup {CartViewSet_remove_item(DB, u, itemId) : itemId \in ItemIds}
                \cup {WishlistViewSet_create(DB, u, pid) :
                          pid \in Products \cup {NoProduct}}
                \cup {WishlistViewSet_destroy(DB, u, pk) : pk \in WishIds}
                \cup {WishlistViewSet_remove_by_product(DB, u, pid) :
                          pid \in Products \cup {NoProduct}}
                \cup {ProductViewSet_update_stock(DB, pid, raw) :
                          pid \in Products \cup {NoProduct}, raw \in ChangeValues}
        IN \A r \in responses : r.status >= 400 => r.db = DB

C16_AnonymousRejected ==
    /\ \A cred \in {"none", "invalid", "expired"}, route \in AccountRoutes :
          LET r == AccountRequest(DB, cred, route)
          IN r.status = 401 /\ r.db = DB
    /\ \A c \in carts : c.user \in DOMAIN users
    /\ \A i \in cartItems : \E c \in carts : c.id = i.cart
    /\ \A w \in wishlists : w.user \in DOMAIN users

\* a request was refused with 401 while alice has a cart item, a wishlist
\* row and a changed password
C16_Witness ==
    /\ last.op = "account"
    /\ last.status = 401
    /\ cartItems # {}
    /\ wishlists # {}
    /\ users["alice"].password = "second"

\* C17: update_stock with quantity_change c on a product with stock s
\* returns 400 and leaves the store when s + c < 0 or c is not an integer;
\* otherwise the stock becomes s + c and nothing else changes.
C17_UpdateStock ==
    \A pid \in Products, raw \in ChangeValues :
        LET r == ProductViewSet_update_stock(DB, pid, raw)
            c == DataGet(raw, IntVal(0))
            bad == c.kind \notin {"int", "str"} \/ stock[pid] + c.n < 0
        IN IF bad THEN r.status = 400 /\ r.db = DB
           ELSE /\ r.status = 200
                /\ r.db = [DB EXCEPT !.stock[pid] = stock[pid] + c.n]

\* the terms of a search text: its maximal runs without whitespace
Terms(text) == split(text)

\* the elements of a sequence, and whether none repeats
Range(seq) == {seq[i] : i \in DOMAIN seq}

NoRepeat(seq) == \A i, j \in DOMAIN seq : seq[i] = seq[j] => i = j

\* the one parameter a request supplies, if it supplies only one
Only(q, key) == q[key] # Missing /\ q = [NoParams EXCEPT ![key] = q[key]]

\* C18: for GET /products/?search=t1 ... tn the result holds a product if
\* and only if every whitespace-separated term is a case-insensitive
\* substring of its name, its description or its category name, and holds
\* it once.
C18_SearchEveryTerm ==
    (listing.status = 200 /\ Only(listing.params, "search")) =>
        /\ Range(listing.results) =
               {p \in DOMAIN catalog :
                   \A i \in 1..Len(Terms(listing.params.search.s)) :
                       term_matches(DB, p, Terms(listing.params.search.s)[i])}
        /\ NoRepeat(listing.results)

\* the orders the filters could be applied in: the rotations of the
\* reverse of the order of get_queryset, before or after the search backend
Rotations(seq) ==
    {[i \in 1..Len(seq) |-> seq[((i + k - 1) % Len(seq)) + 1]] : k \in 1..Len(seq)}

Orders ==
    Rotations([i \in 1..Len(FilterOrder) |->
                  FilterOrder[Len(FilterOrder) + 1 - i]])

\* the products the list returns when only the parameter key of q is sent
Alone(q, key) ==
    Range(ProductViewSet_list(DB, [NoParams EXCEPT ![key] = q[key]]).results)

\* C19: the product list returns the intersection of the sets that each
\* supplied filter returns alone over the full catalog, and applying the
\* filters in another order returns the same set.
C19_FiltersConjunctive ==
    listing.status = 200 =>
        LET q == listing.params
            All == DOMAIN catalog
        IN /\ Range(listing.results) =
                  {p \in All : \A key \in FilterKeys : p \in Alone(q, key)}
           /\ \A order \in Orders :
                  SearchFilter(DB, filter_chain(DB, All, order, q), q)
                      = Range(listing.results)
           /\ \A order \in Orders :
                  filter_chain(DB, SearchFilter(DB, All, q), order, q)
                      = Range(listing.results)

\* a request with three filters and a search, one product passing all and
\* one passing only some
C19_Witness ==
    /\ listing.status = 200
    /\ Cardinality({key \in FilterKeys : listing.params[key] # Missing}) >= 4
    /\ listing.params.search # Missing
    /\ Len(listing.results) = 1
    /\ \E key \in FilterKeys :
           /\ listing.params[key] # Missing
           /\ Alone(listing.params, key) = DOMAIN catalog
    /\ \E key \in FilterKeys : Cardinality(Alone(listing.params, key)) = 1

\* a value that is no decimal number (prices), no integer (min_stock), no
\* ISO-8601 timestamp (dates), or neither true nor false (in_stock)
Unparseable(key, value) ==
    CASE key \in {"min_price", "max_price"} ->
            value.kind \notin {"str", "decimal"}
      [] key = "min_stock" -> value.kind # "str"
      [] key \in {"created_after", "created_before"} ->
            value.kind \notin {"iso", "isoz"}
      [] key = "in_stock" ->
            \/ value.kind # "text"
            \/ lower(value.s) \notin {<<"t", "r", "u", "e">>,
                                       <<"f", "a", "l", "s", "e">>}
      [] OTHER -> FALSE

\* C20: an unparseable min_price, max_price, min_stock, created_after or
\* created_before, or an in_stock that is neither true nor false, gives
\* status 200 and the result of the same request without that parameter.
C20_UnparseableIgnored ==
    listing # NoListing =>
        /\ listing.status = 200
        /\ \A key \in FilterKeys :
               (/\ listing.params[key] # Missing
                /\ Unparseable(key, listing.params[key])) =>
                   listing.results =
                       ProductViewSet_list(
                           DB, [listing.params EXCEPT ![key] = Missing]).results

\* an unparseable max_price next to a filter that removes one product and
\* keeps the other
C20_Witness ==
    /\ listing.status = 200
    /\ listing.params.max_price = Invalid
    /\ listing.params.in_stock = Invalid
    /\ listing.params.min_stock = DecimalStr(1)
    /\ listing.params.created_after = Invalid
    /\ listing.params.min_price = DecimalStr(1)
    /\ Len(listing.results) = 1

\* whether every parameter of a request parses
Parsable(q) ==
    \A key \in FilterKeys : q[key] = Missing \/ ~Unparseable(key, q[key])

\* C21: GET /categories/c/products/ returns the same products as
\* GET /products/ with the same parameters plus category = c.
C21_CategoryProductsAsList ==
    (listing.status = 200 /\ listing.params.category = Missing
        /\ Parsable(listing.params)) =>
        \A c \in DOMAIN categories :
            LET scoped == CategoryViewSet_products(DB, c, listing.params)
                listed == ProductViewSet_list(
                              DB, [listing.params EXCEPT !.category = StrVal(c)])
            IN scoped.status = 200 /\ Range(scoped.results) = Range(listed.results)

\* C22: GET /products/low_stock/ returns exactly the products that
\* GET /products/ returns for the same parameters and whose stock_quantity
\* is below 10.
C22_LowStockUnderFilters ==
    listing.status = 200 =>
        Range(ProductViewSet_low_stock(DB, listing.params).results) =
            {p \in Range(listing.results) : stock[p] < 10}

\* C23: a wishlist Add of a product id that does not exist is answered 404,
\* not the 400 of a duplicate entry, and creates no Wishlist row.
C23_WishlistAddNotFound ==
    \A u \in Users :
        LET r == WishlistViewSet_create(DB, u, NoProduct)
        IN r.status = 404 /\ r.db = DB

\* the registrations the serializer must reject
Rejected(db, data) ==
    \/ data.password # data.password_confirm
    \/ data.password = "weak"
    \/ \E u \in DOMAIN db.users : db.users[u].email = data.email
    \/ "" \in {data.username, data.email, data.password, data.password_confirm}

\* C24: a registration with mismatched passwords, a weak password, an
\* email another user has, or a missing required field is answered 400 and
\* creates neither a User nor a Cart row.
C24_RejectedRegistration ==
    /\ [](\A data \in RegisterData :
             Rejected(DB, data) =>
                 LET r == UserRegistrationView_create(DB, data)
                 IN r.status = 400 /\ r.db = DB)
    /\ [][\A s \in Clients :
             (/\ reqs[s].pc = "register_is_valid"
              /\ reqs'[s] # reqs[s]
              /\ Rejected(DB, reqs[s].data))
             => /\ reqs'[s].pc = "done"
                /\ reqs'[s].status = 400
                /\ users' = users
                /\ carts' = carts]_vars

\* registrations were rejected for a mismatch and for a used email, and the
\* store holds the users and carts it held before
C24_Witness ==
    /\ \E s \in Clients :
           /\ reqs[s].pc = "done"
           /\ reqs[s].op = "register"
           /\ reqs[s].status = 400
           /\ reqs[s].detail = "mismatch"
    /\ \E s \in Clients :
           /\ reqs[s].pc = "done"
           /\ reqs[s].op = "register"
           /\ reqs[s].status = 400
           /\ reqs[s].detail = "email_taken"
    /\ users = FirstUsers
    /\ carts = {}

\* C25: in no reachable state, one after an aborted request included, does
\* a User created by registration exist without exactly one Cart.
C25_RegistrationAtomic ==
    \A u \in DOMAIN users \ DOMAIN FirstUsers :
        Cardinality(CartsOf(carts, u)) = 1

\* what a View, an Add or a Clear of user u answers on the store
CartRequestsOf(u) ==
    {CartViewSet_list(DB, u), CartViewSet_clear(DB, u)}
    \cup {CartViewSet_create(DB, u, pid, raw) :
              pid \in Products \cup {NoProduct}, raw \in QuantityValues}

\* C26: each user owns at most one Cart in every reachable state of the
\* interleaved register, View, Add and Clear requests; a View, Add or Clear
\* of a user without a Cart creates exactly one, and one of a user with a
\* Cart creates none.
C26_OneCartPerUser ==
    /\ \A u \in DOMAIN users : Cardinality(CartsOf(carts, u)) <= 1
    /\ \A u \in DOMAIN users : \A r \in CartRequestsOf(u) :
           /\ Cardinality(CartsOf(r.db.carts, u)) = 1
           /\ carts \subseteq r.db.carts
           /\ \A c \in r.db.carts \ carts : c.user = u

\* a Clear that found no cart is about to insert one, after a View of the
\* same user has inserted it
C26_Witness ==
    /\ reqs[1].pc = "done"
    /\ reqs[1].op = "view"
    /\ reqs[2].pc = "clear_cart_create"
    /\ reqs[1].user = reqs[2].user
    /\ Cardinality(CartsOf(carts, reqs[2].user)) = 1

\* the bodies of PATCH /auth/profile/
ProfileData ==
    {[NoData EXCEPT !.email = e, !.username = n] :
        e \in {"alice", "bob", "carol"}, n \in {"", "dave"}}

\* C27: a PATCH of the profile never changes the caller's username, and
\* succeeds, when username is in the body; an update to an email another
\* user has is answered 400 and leaves the caller's email; and after any
\* interleaving of register and profile-update requests no two users have
\* the same email.
C27_ProfileKeepsIdentity ==
    /\ \A u \in DOMAIN users, data \in ProfileData :
           LET r == UserProfileView_partial_update(DB, u, data)
               taken == \E v \in DOMAIN users \ {u} : users[v].email = data.email
           IN /\ DOMAIN r.db.users = DOMAIN users
              /\ r.status = IF taken THEN 400 ELSE 200
              /\ taken => r.db = DB
    /\ \A u, v \in DOMAIN users : users[u].email = users[v].email => u = v

\* what the cart and wishlist requests of user u answer on the store
CartAndWishlistRequestsOf(u) ==
    CartRequestsOf(u)
    \cup {CartViewSet_update_item(DB, u, itemId, raw) :
              itemId \in ItemIds, raw \in QuantityValues}
    \cup {CartViewSet_remove_item(DB, u, itemId) : itemId \in ItemIds}
    \cup {WishlistViewSet_create(DB, u, pid) : pid \in Products \cup {NoProduct}}
    \cup {WishlistViewSet_destroy(DB, u, pk) : pk \in WishIds}
    \cup {WishlistViewSet_remove_by_product(DB, u, pid) : pid \in Products}

\* C28: no cart or wishlist request changes the stock_quantity or the
\* price of a product.
C28_NoReservation ==
    /\ [](\A u \in Users : \A r \in CartAndWishlistRequestsOf(u) :
             r.db.stock = stock /\ r.db.price = price)
    /\ [][stock' = stock /\ price' = price]_vars

\* the carts of the two users hold more of product 1 than its stock
C28_Witness ==
    /\ HeldQuantity(DB, "alice", 1) + HeldQuantity(DB, "bob", 1) > stock[1]
    /\ HeldQuantity(DB, "alice", 1) <= stock[1]
    /\ HeldQuantity(DB, "bob", 1) <= stock[1]
    /\ stock = [p \in Products |-> IF p = 1 THEN 2 ELSE 1]

\* C29: every Product has stock_quantity >= 0 in every reachable state of
\* the interleaved update_stock calls and cart requests, and no update_stock
\* or product creation applied to such a state leaves a negative stock.
C29_StockNeverNegative ==
    /\ \A p \in DOMAIN stock : stock[p] >= 0
    /\ \A p \in DOMAIN stock, raw \in ChangeValues :
           ProductViewSet_update_stock(DB, p, raw).db.stock[p] >= 0
    /\ \A q \in (0 - 1)..1 :
           LET data == [NoData EXCEPT !.name = <<"a">>, !.price = IntVal(1),
                                      !.stock_quantity = q, !.category = 1]
               after == ProductViewSet_create(DB, data).db.stock
           IN \A p \in DOMAIN after : after[p] >= 0

\* two decrements of the one unit of a product are in flight, both past
\* the check, and the first has been saved
C29_Witness ==
    /\ reqs[1].pc = "done"
    /\ reqs[1].op = "stock"
    /\ reqs[1].status = 200
    /\ reqs[1].raw = IntVal(0 - 1)
    /\ reqs[2].pc = "stock_save"
    /\ reqs[2].raw = IntVal(0 - 1)
    /\ reqs[2].pid = reqs[1].pid
    /\ stock[reqs[2].pid] = 0

\* C30: a cart line whose removal has been answered with success is not in
\* the store again: rows get fresh ids, so a later Add of the product never
\* brings back the id a completed remove_item deleted.
C30_RemovalNotUndone ==
    \A s \in Clients :
        (/\ reqs[s].pc = "done"
         /\ reqs[s].op = "remove"
         /\ reqs[s].status = 200)
        => ~(\E i \in cartItems : i.id = reqs[s].itemId)

====
